---- MODULE Spec2Model ----
(***************************************************************************)
(* Model of src/src/style_processor.py: StyleProcessor.process() and the   *)
(* four stages it runs (extract_template_styles, analyze_target_document,  *)
(* build_style_mapping, update_styles_definition,                          *)
(* update_content_references) over a small file system.                    *)
(*                                                                         *)
(* An XML tree is a sequence of nodes: the children of the root element in *)
(* document order.  A node is a w:style element, a w:docDefaults element   *)
(* or a nested w:styles element holding w:style / w:docDefaults children.  *)
(* The tag of the root element itself is never looked at by the code.      *)
(***************************************************************************)
EXTENDS Integers, Sequences, FiniteSets, TLC

\* ------------------------------------------------------------------ bounds
MaxStyles == 2      \* style elements per style part (mapping runs)
MaxRefs == 2        \* style references per content part (rewrite runs)
MaxKids == 1        \* children of a nested w:styles element (merge runs)
MaxRuns == 2        \* w:t elements per paragraph (query runs)
MaxBlocks == 2
\* OCR threads running at a time (the code has no bound)
MaxThreads == 2      \* paragraphs and tables per body (query runs)

\* ------------------------------------------------------------ python values
\* Python's None (element.get() of an attribute that is not there)
None == "<None>"
\* element.find('.//w:name') is None: the style has no w:name child
NoElem == "<no w:name>"

\* ------------------------------------------------------------------- nodes
StyleNode(id, name) == [tag |-> "style", id |-> id, name |-> name, kids |-> <<>>]
DocDefaultsNode(c) == [tag |-> "docDefaults", id |-> None, name |-> c, kids |-> <<>>]
StylesNode(kids) == [tag |-> "styles", id |-> None, name |-> None, kids |-> kids]

IsStyle(n) == n.tag = "style"
IsDocDefaults(n) == n.tag = "docDefaults"
IsStyles(n) == n.tag = "styles"

RECURSIVE Concat(_)
Concat(ss) == IF ss = <<>> THEN <<>> ELSE Head(ss) \o Concat(Tail(ss))

\* every element with the given tag, in document order: xpath('//w:<tag>')
Descendants(root, tag) ==
  Concat([i \in 1..Len(root) |->
            IF root[i].tag = tag THEN <<root[i]>> \o SelectSeq(root[i].kids, LAMBDA k : k.tag = tag)
            ELSE SelectSeq(root[i].kids, LAMBDA k : k.tag = tag)])

\* xpath('//w:style'): all style elements of the tree, in document order
StyleElems(root) == Descendants(root, "style")

\* index of the first element of s satisfying the tag, 0 when there is none
RECURSIVE FirstIdxFrom(_, _, _)
FirstIdxFrom(s, tag, i) ==
  IF i > Len(s) THEN 0
  ELSE IF s[i].tag = tag THEN i ELSE FirstIdxFrom(s, tag, i + 1)
FirstIdx(s, tag) == FirstIdxFrom(s, tag, 1)

RemoveAt(s, i) == [j \in 1..(Len(s) - 1) |-> IF j < i THEN s[j] ELSE s[j + 1]]
RemoveFirst(s, tag) == IF FirstIdx(s, tag) = 0 THEN s ELSE RemoveAt(s, FirstIdx(s, tag))

\* the set of w:styleId values of the style elements of a tree
StyleIdsOf(root) == {StyleElems(root)[i].id : i \in 1..Len(StyleElems(root))}

\* --------------------------------------------------------------- dictionaries
\* A Python dict in insertion order: a sequence of <<key, value>> with distinct
\* keys.  d[k] = v keeps the position of an existing key.
DictKeys(d) == {d[i][1] : i \in 1..Len(d)}
DictSet(d, k, v) ==
  IF k \in DictKeys(d) THEN [i \in 1..Len(d) |-> IF d[i][1] = k THEN <<k, v>> ELSE d[i]]
  ELSE Append(d, <<k, v>>)
DictGet(d, k) == (CHOOSE i \in 1..Len(d) : d[i][1] = k) [2]

MapSet(m, k, v) == [x \in (DOMAIN m) \cup {k} |-> IF x = k THEN v ELSE m[x]]
EmptyMap == [x \in {} |-> None]

\* ---------------------------------------------------------- style catalogs
\* The {styleId: name} dict the code builds from a style tree: one entry per
\* style element that has a w:name child, in document order.  The key is
\* None for an element without w:styleId, the value None for a w:name
\* without w:val.
RECURSIVE CatalogFrom(_, _, _)
CatalogFrom(elems, i, d) ==
  IF i > Len(elems) THEN d
  ELSE CatalogFrom(elems, i + 1,
         IF elems[i].name # NoElem THEN DictSet(d, elems[i].id, elems[i].name) ELSE d)
Catalog(root) == CatalogFrom(StyleElems(root), 1, <<>>)

\* ------------------------------------------------------ build_style_mapping
\* str.startswith('heading') on the style names of the model (names are
\* atomic strings here): the lower-case names below begin with the prefix,
\* "Heading1" (capital H) does not.
HeadingNames == {"heading 1", "heading 2", "heading1"}
StartsWithHeading(name) == name \in HeadingNames

\* Python truthiness of a style id: None and '' are falsy
Truthy(id) == id # None /\ id # ""

\* str.lower() on the style names of the model
Lower(name) ==
  CASE name = "Heading1" -> "heading1"
    [] name = "Normal" -> "normal"
    [] name = "BodyText" -> "bodytext"
    [] OTHER -> name

\* (the names compared after str.lower())
RECURSIVE FirstNamedIgnoreCase(_, _, _)
FirstNamedIgnoreCase(tpl, name, j) ==
  IF j > Len(tpl) THEN 0
  ELSE IF Lower(tpl[j][2]) = Lower(name) THEN j ELSE FirstNamedIgnoreCase(tpl, name, j + 1)

\* index of the first template entry whose name equals `name`, 0 if none
RECURSIVE FirstNamed(_, _, _)
FirstNamed(tpl, name, j) ==
  IF j > Len(tpl) THEN 0
  ELSE IF tpl[j][2] = name THEN j ELSE FirstNamed(tpl, name, j + 1)

\* pass 1: exact name match, target dict order, first template match wins
RECURSIVE ExactPass(_, _, _, _)
ExactPass(tgt, tpl, i, m) ==
  IF i > Len(tgt) THEN m
  ELSE LET j == FirstNamed(tpl, tgt[i][2], 1)
       IN ExactPass(tgt, tpl, i + 1,
                    IF j # 0 THEN MapSet(m, tgt[i][1], tpl[j][1]) ELSE m)

\* (the last heading style of the template instead of the first)
RECURSIVE LastHeading(_, _)
LastHeading(tpl, j) ==
  IF j > Len(tpl) THEN 0
  ELSE IF LastHeading(tpl, j + 1) # 0 THEN LastHeading(tpl, j + 1)
  ELSE IF tpl[j][2] # None /\ StartsWithHeading(tpl[j][2]) THEN j
  ELSE 0

\* the inner loop of pass 2: index of the first template entry whose name
\* starts with 'heading', 0 if none, -1 if name.startswith is called on a
\* name that is None before a match is found (AttributeError)
RECURSIVE FirstHeading(_, _)
FirstHeading(tpl, j) ==
  IF j > Len(tpl) THEN 0
  ELSE IF tpl[j][2] = None THEN 0 - 1
  ELSE IF StartsWithHeading(tpl[j][2]) THEN j
  ELSE FirstHeading(tpl, j + 1)

\* pass 2: heading prefix match for the ids pass 1 left out.  The result is
\* [raised, map]: raised when old_style_name.startswith or
\* new_style_name.startswith is applied to None.
RECURSIVE PrefixPass(_, _, _, _)
PrefixPass(tgt, tpl, i, m) ==
  IF i > Len(tgt) THEN [raised |-> FALSE, map |-> m]
  ELSE IF tgt[i][1] \in DOMAIN m THEN PrefixPass(tgt, tpl, i + 1, m)
  ELSE IF tgt[i][2] = None THEN [raised |-> TRUE, map |-> m]
  ELSE IF ~StartsWithHeading(tgt[i][2]) THEN PrefixPass(tgt, tpl, i + 1, m)
  ELSE LET j == FirstHeading(tpl, 1)
       IN IF j < 0 THEN [raised |-> TRUE, map |-> m]
          ELSE PrefixPass(tgt, tpl, i + 1,
                          IF j # 0 THEN MapSet(m, tgt[i][1], tpl[j][1]) ELSE m)

\* (pass 3 giving the name 'Normal' where the id of the style belongs)
RECURSIVE DefaultPassByName(_, _, _, _)
DefaultPassByName(tgt, tpl, i, m) ==
  IF i > Len(tgt) THEN m
  ELSE IF tgt[i][1] \in DOMAIN m THEN DefaultPassByName(tgt, tpl, i + 1, m)
  ELSE LET j == FirstNamed(tpl, "Normal", 1)
       IN DefaultPassByName(tgt, tpl, i + 1,
                            IF j # 0 THEN MapSet(m, tgt[i][1], tpl[j][2]) ELSE m)

\* pass 3: the ids still unmapped get the id of the first template style
\* named 'Normal', when that id is truthy
RECURSIVE DefaultPass(_, _, _, _)
DefaultPass(tgt, tpl, i, m) ==
  IF i > Len(tgt) THEN m
  ELSE IF tgt[i][1] \in DOMAIN m THEN DefaultPass(tgt, tpl, i + 1, m)
  ELSE LET j == FirstNamed(tpl, "Normal", 1)
       IN DefaultPass(tgt, tpl, i + 1,
                      IF j # 0 /\ Truthy(tpl[j][1]) THEN MapSet(m, tgt[i][1], tpl[j][1]) ELSE m)

\* (the fallback applied before the name matches)
MappingPassesDefaultFirst(tgt, tpl) ==
  LET p2 == PrefixPass(tgt, tpl, 1, ExactPass(tgt, tpl, 1, DefaultPass(tgt, tpl, 1, EmptyMap)))
  IN IF p2.raised THEN p2
     ELSE [raised |-> FALSE, map |-> DefaultPass(tgt, tpl, 1, p2.map)]

\* the three passes in the order of the code
MappingPasses(tgt, tpl) ==
  LET p2 == PrefixPass(tgt, tpl, 1, ExactPass(tgt, tpl, 1, EmptyMap))
  IN IF p2.raised THEN p2
     ELSE [raised |-> FALSE, map |-> DefaultPass(tgt, tpl, 1, p2.map)]

\* (the template catalog walked from its last entry to its first)
build_style_mapping_reversed(template_map, target_root) ==
  MappingPasses(Catalog(target_root),
                [j \in 1..Len(template_map) |-> template_map[Len(template_map) + 1 - j]])

build_style_mapping(template_map, target_root) ==
  MappingPasses(Catalog(target_root), template_map)

\* -------------------------------------------------- update_styles_definition
\* The children of the element the code works on: the first w:styles
\* DESCENDANT of the parsed root (find('.//w:styles') never returns the root
\* itself), or of a new empty w:styles appended to the root when there is none.
StylesElemKids(target_root) ==
  IF FirstIdx(target_root, "styles") = 0 THEN <<>>
  ELSE target_root[FirstIdx(target_root, "styles")].kids

\* (steps 6 and 7 left out: nothing is removed)
ClearedKidsNothing(kids) == kids

\* steps 6 and 7: drop the direct w:style children and the first direct
\* w:docDefaults child of that element
ClearedKids(kids) == RemoveFirst(SelectSeq(kids, LAMBDA k : ~IsStyle(k)), "docDefaults")

\* etree.ElementTree(elem).getroot() returns elem itself
CloneElem(elem) == elem

\* steps 8 to 10: what is appended: every style element of the template tree,
\* then the template's first w:docDefaults
AppendedElems(template_root) ==
  LET dd == Descendants(template_root, "docDefaults")
  IN [i \in 1..Len(StyleElems(template_root)) |-> CloneElem(StyleElems(template_root)[i])]
     \o (IF dd = <<>> THEN <<>> ELSE <<CloneElem(dd[1])>>)

MergedRoot(template_root, target_root) ==
  LET kids == ClearedKids(StylesElemKids(target_root)) \o AppendedElems(template_root)
      at == FirstIdx(target_root, "styles")
  IN IF at = 0 THEN Append(target_root, StylesNode(kids))
     ELSE [target_root EXCEPT ![at].kids = kids]

\* An lxml element has one parent: append() of an element that sits in
\* another tree moves it.  The template tree after the merge has lost every
\* style element and its first w:docDefaults.
WithoutStyles(root) ==
  LET top == SelectSeq(root, LAMBDA n : ~IsStyle(n))
  IN [i \in 1..Len(top) |-> [top[i] EXCEPT !.kids = SelectSeq(top[i].kids, LAMBDA k : ~IsStyle(k))]]

RECURSIVE WithoutFirstDocDefaults(_, _)
WithoutFirstDocDefaults(root, i) ==
  IF i > Len(root) THEN root
  ELSE IF IsDocDefaults(root[i]) THEN RemoveAt(root, i)
  ELSE IF FirstIdx(root[i].kids, "docDefaults") # 0
       THEN [root EXCEPT ![i].kids = RemoveFirst(root[i].kids, "docDefaults")]
  ELSE WithoutFirstDocDefaults(root, i + 1)

TemplateAfterMerge(template_root) ==
  WithoutFirstDocDefaults(WithoutStyles(template_root), 1)

\* ------------------------------------------------- update_content_references
\* The content part is either a sequence of style references (records with
\* kind and val) or a body of paragraphs and tables (records of kind "p" and
\* "tbl", whose style is the w:val of their w:pStyle or w:tblStyle, NoElem
\* when they have none).
IsBlock(elem) == elem.kind \in {"p", "tbl"}

\* (the paragraph loop writing a new w:pPr that holds the w:pStyle only)
RewriteParaReplacingPPr(para, kind, m) ==
  IF kind = "pStyle" /\ para.style # NoElem /\ para.style \in DOMAIN m
  THEN [para EXCEPT !.style = m[para.style], !.numPr = FALSE] ELSE para

\* the w:pStyle of one paragraph in the loop over //w:pStyle
RewritePara(para, kind, m) ==
  IF kind = "pStyle" /\ para.style # NoElem /\ para.style \in DOMAIN m
  THEN [para EXCEPT !.style = m[para.style]] ELSE para

\* a table holds a w:tblStyle of its own and the w:pStyle of its paragraphs
RewriteBlock(block, kind, m) ==
  IF block.kind = "p" THEN RewritePara(block, kind, m)
  ELSE [block EXCEPT
          !.style = IF kind = "tblStyle" /\ @ # NoElem /\ @ \in DOMAIN m THEN m[@] ELSE @,
          !.paras = [j \in 1..Len(@) |-> RewritePara(@[j], kind, m)]]

\* One loop of the code: the references of one kind whose id is a key of the
\* map get the mapped id
RewriteKind(doc, kind, m) ==
  [i \in 1..Len(doc) |->
     IF IsBlock(doc[i]) THEN RewriteBlock(doc[i], kind, m)
     ELSE IF doc[i].kind = kind /\ doc[i].val \in DOMAIN m
     THEN [doc[i] EXCEPT !.val = m[doc[i].val]] ELSE doc[i]]

\* (the table-style loop left out)
RewriteRefsNoTables(doc, m) ==
  RewriteKind(RewriteKind(doc, "pStyle", m), "rStyle", m)

\* (the three loops run a second time over what they rewrote)
RewriteRefsChained(doc, m) ==
  RewriteKind(RewriteKind(RewriteKind(
    RewriteKind(RewriteKind(RewriteKind(doc, "pStyle", m), "rStyle", m), "tblStyle", m),
    "pStyle", m), "rStyle", m), "tblStyle", m)

\* the three loops in the order of the code
RewriteRefs(doc, m) ==
  RewriteKind(RewriteKind(RewriteKind(doc, "pStyle", m), "rStyle", m), "tblStyle", m)

\* elem.set(attr, None) raises TypeError: a reference is mapped to a template
\* style that has no w:styleId
RefValsOf(elem) ==
  IF ~IsBlock(elem) THEN {elem.val}
  ELSE ({elem.style} \cup {elem.paras[j].style : j \in 1..Len(elem.paras)}) \ {NoElem}
RewriteRaises(doc, m) ==
  \E i \in 1..Len(doc) : \E v \in RefValsOf(doc[i]) : v \in DOMAIN m /\ m[v] = None

\* ------------------------------------------------------- parts and packages
\* A part is its bytes: how they are laid out (as found in the input, or as
\* etree.tostring(pretty_print=True) writes them) and the tree they parse to.
\* "malformed" bytes do not parse; "missing" stands for no such zip entry.
Part(fmt, root) == [fmt |-> fmt, root |-> root]
MissingPart == Part("missing", <<>>)
MalformedPart == Part("malformed", <<>>)
ParsesAnything(part) == part.fmt # "missing"
Parses(part) == part.fmt \in {"orig", "pretty"}
fromstring(part) == part.root
tostring(root) == Part("pretty", root)

Package(styles, document, others) ==
  [styles |-> styles, document |-> document, others |-> others]
NoPackage == Package(MissingPart, MissingPart, EmptyMap)

\* A file: absent, a zip package, a file that is no zip archive, or what an
\* interrupted ZipFile(path, 'w') leaves behind
File(st, pkg) == [st |-> st, pkg |-> pkg]
Absent == File("absent", NoPackage)
Corrupt == File("corrupt", NoPackage)
Partial == File("partial", NoPackage)
ZipOf(pkg) == File("zip", pkg)

\* os.walk over the temporary directory: every file in it becomes an entry
\* of the new archive, under its relative path and with its bytes
RepackWithoutOthers(dir) == ZipOf([dir EXCEPT !.others = EmptyMap])
Repack(dir) == ZipOf(dir)

\* ------------------------------------------------------------------- state
template_path == "template.docx"
target_path == "target.docx"
Paths == {"template.docx", "target.docx", "out.docx"}

VARIABLES
  fs,                        \* the files at the three paths
  fs0,                       \* the files as they were when the run began
  output_path,               \* self.output_path
  pc,                        \* where process() is
  result,                    \* what process() returned: "none", "True", "False"
  template_styles_xml_root,  \* the template's style tree in memory
  template_style_id_mapping, \* {template style id: name}
  target_styles_xml_root,    \* the target's style tree as analyze_target_document parsed it
  style_mapping,             \* {target style id: template style id}
  temp_dir,                  \* the files of the TemporaryDirectory in use
  writes,                    \* completed ZipFile(output_path, 'w') blocks of this run
  read_back,                 \* a stage has opened output_path as its input
  first_target,              \* the target file of an earlier, successful run
  first_output,              \* the file that run produced
  search_string,             \* the argument of get_styles_by_string
  results,                   \* what get_styles_by_string returned
  screenshot_btn,            \* main window: the screenshot button is enabled
  upload_btn,                \* main window: the upload button is enabled
  copy_btn,                  \* main window: the copy button is enabled
  save_btn,                  \* main window: the save button is enabled
  screenshot_window,         \* self.screenshot_window: "none" or "open"
  ocr_threads,               \* OCRThreads started whose finished/error is not yet handled
  modal,                     \* the modal dialogs open, the innermost last
  status_bar                 \* the message of the status bar

vars == <<fs, fs0, output_path, pc, result, template_styles_xml_root,
          template_style_id_mapping, target_styles_xml_root, style_mapping,
          temp_dir, writes, read_back, first_target, first_output,
          search_string, results, screenshot_btn, upload_btn, copy_btn, save_btn,
          screenshot_window, ocr_threads, modal, status_bar>>

\* the widgets of the recognition tab of the main window
shell == <<screenshot_btn, upload_btn, copy_btn, save_btn, screenshot_window,
           ocr_threads, modal, status_bar>>
\* the StyleProcessor, its files and its query
engine == <<fs, fs0, output_path, pc, result, template_styles_xml_root,
            template_style_id_mapping, target_styles_xml_root, style_mapping,
            temp_dir, writes, read_back, first_target, first_output,
            search_string, results>>

\* PaddleOCRVLAssistant.__init__ and init_ui: the two recognition buttons are
\* enabled, copy and save are not, nothing is open, nothing is running
ShellInit ==
  /\ screenshot_btn = TRUE
  /\ upload_btn = TRUE
  /\ copy_btn = FALSE
  /\ save_btn = FALSE
  /\ screenshot_window = "none"
  /\ ocr_threads = 0
  /\ modal = <<>>
  /\ status_bar = "ready"

\* what no stage of process() touches
outside == <<first_target, first_output, search_string, results, shell>>

\* ZipFile(path, 'r') succeeds
Readable(path) == fs[path].st = "zip"

\* every `except Exception: return False` / `return None, None` of the run
Fail ==
  /\ pc' = "done"
  /\ result' = "False"

\* --------------------------------------------------------------- the stages
\* process() step 1
ExtractTemplateStyles ==
  /\ UNCHANGED outside
  /\ pc = "extract"
  /\ IF Readable(template_path) /\ Parses(fs[template_path].pkg.styles)
     THEN /\ template_styles_xml_root' = fromstring(fs[template_path].pkg.styles)
          /\ template_style_id_mapping' = Catalog(fromstring(fs[template_path].pkg.styles))
          /\ pc' = "analyze"
          /\ UNCHANGED result
     ELSE /\ Fail
          /\ UNCHANGED <<template_styles_xml_root, template_style_id_mapping>>
  /\ UNCHANGED <<fs, fs0, output_path, target_styles_xml_root, style_mapping,
                 temp_dir, writes, read_back>>

\* process() step 2: the style part and the content part must both parse
AnalyzeTargetDocument ==
  /\ UNCHANGED outside
  /\ pc = "analyze"
  /\ IF /\ Readable(target_path)
        /\ Parses(fs[target_path].pkg.styles)
        /\ Parses(fs[target_path].pkg.document)
     THEN /\ target_styles_xml_root' = fromstring(fs[target_path].pkg.styles)
          /\ pc' = "map"
          /\ UNCHANGED result
     ELSE /\ Fail
          /\ UNCHANGED target_styles_xml_root
  /\ UNCHANGED <<fs, fs0, output_path, template_styles_xml_root,
                 template_style_id_mapping, style_mapping, temp_dir, writes, read_back>>

\* (step 3 returning False when a target style is left unmapped)
BuildStyleMappingStrict ==
  /\ UNCHANGED outside
  /\ pc = "map"
  /\ LET r == build_style_mapping(template_style_id_mapping, target_styles_xml_root)
     IN IF r.raised \/ DictKeys(Catalog(target_styles_xml_root)) # DOMAIN r.map
        THEN Fail /\ UNCHANGED style_mapping
        ELSE /\ style_mapping' = r.map
             /\ pc' = "usd"
             /\ UNCHANGED result
  /\ UNCHANGED <<fs, fs0, output_path, template_styles_xml_root,
                 template_style_id_mapping, target_styles_xml_root, temp_dir,
                 writes, read_back>>

\* process() step 3; an exception of build_style_mapping is caught by process()
BuildStyleMapping ==
  /\ UNCHANGED outside
  /\ pc = "map"
  /\ LET r == build_style_mapping(template_style_id_mapping, target_styles_xml_root)
     IN IF r.raised
        THEN Fail /\ UNCHANGED style_mapping
        ELSE /\ style_mapping' = r.map
             /\ pc' = "usd"
             /\ UNCHANGED result
  /\ UNCHANGED <<fs, fs0, output_path, template_styles_xml_root,
                 template_style_id_mapping, target_styles_xml_root, temp_dir,
                 writes, read_back>>

\* update_styles_definition, steps 1 to 11: extract the target into a
\* temporary directory, merge, save the style part there
UsdMerge ==
  /\ UNCHANGED outside
  /\ pc = "usd"
  /\ IF Readable(target_path) /\ Parses(fs[target_path].pkg.styles)
     THEN /\ temp_dir' = [fs[target_path].pkg EXCEPT
                 !.styles = tostring(MergedRoot(template_styles_xml_root,
                                                fromstring(fs[target_path].pkg.styles)))]
          /\ template_styles_xml_root' = TemplateAfterMerge(template_styles_xml_root)
          /\ pc' = "usd_open"
          /\ UNCHANGED result
     ELSE /\ Fail
          /\ UNCHANGED <<temp_dir, template_styles_xml_root>>
  /\ UNCHANGED <<fs, fs0, output_path, template_style_id_mapping,
                 target_styles_xml_root, style_mapping, writes, read_back>>

\* ZipFile(self.output_path, 'w'): the file at the path is truncated
OpenOutput(at, next) ==
  /\ UNCHANGED outside
  /\ pc = at
  /\ fs' = [fs EXCEPT ![output_path] = Partial]
  /\ pc' = next
  /\ UNCHANGED <<fs0, output_path, result, template_styles_xml_root,
                 template_style_id_mapping, target_styles_xml_root, style_mapping,
                 temp_dir, writes, read_back>>

\* ... or raises (the path cannot be written) and leaves the file alone
OpenOutputFails(at) ==
  /\ UNCHANGED outside
  /\ pc = at
  /\ Fail
  /\ UNCHANGED <<fs, fs0, output_path, template_styles_xml_root,
                 template_style_id_mapping, target_styles_xml_root, style_mapping,
                 temp_dir, writes, read_back>>

\* the os.walk loop writes every file of the temporary directory
WriteOutput(at, next, res) ==
  /\ UNCHANGED outside
  /\ pc = at
  /\ fs' = [fs EXCEPT ![output_path] = Repack(temp_dir)]
  /\ writes' = writes + 1
  /\ pc' = next
  /\ result' = res
  /\ UNCHANGED <<fs0, output_path, template_styles_xml_root,
                 template_style_id_mapping, target_styles_xml_root, style_mapping,
                 temp_dir, read_back>>

\* ... or a write raises midway (disk full): the file stays incomplete
WriteOutputFails(at) ==
  /\ UNCHANGED outside
  /\ pc = at
  /\ Fail
  /\ UNCHANGED <<fs, fs0, output_path, template_styles_xml_root,
                 template_style_id_mapping, target_styles_xml_root, style_mapping,
                 temp_dir, writes, read_back>>

UsdOpen == OpenOutput("usd_open", "usd_write")
UsdOpenFails == OpenOutputFails("usd_open")
\* (the first repack left out: the merged parts stay in the temporary directory)
UsdWriteDeferred ==
  /\ UNCHANGED outside
  /\ pc = "usd_write"
  /\ pc' = "ucr"
  /\ UNCHANGED <<fs, fs0, output_path, result, template_styles_xml_root,
                 template_style_id_mapping, target_styles_xml_root, style_mapping,
                 temp_dir, writes, read_back>>
UsdWrite == WriteOutput("usd_write", "ucr", "none")
UsdWriteFails == WriteOutputFails("usd_write")

\* update_content_references: extract the OUTPUT file into a temporary
\* directory, rewrite the references of word/document.xml, save it there
UcrRewrite ==
  /\ UNCHANGED outside
  /\ pc = "ucr"
  /\ read_back' = TRUE
  /\ IF /\ Readable(output_path)
        /\ Parses(fs[output_path].pkg.document)
        /\ ~RewriteRaises(fromstring(fs[output_path].pkg.document), style_mapping)
     THEN /\ temp_dir' = [fs[output_path].pkg EXCEPT
                 !.document = tostring(RewriteRefs(fromstring(fs[output_path].pkg.document),
                                                   style_mapping))]
          /\ pc' = "ucr_open"
          /\ UNCHANGED result
     ELSE /\ Fail
          /\ UNCHANGED temp_dir
  /\ UNCHANGED <<fs, fs0, output_path, template_styles_xml_root,
                 template_style_id_mapping, target_styles_xml_root, style_mapping,
                 writes>>

UcrOpen == OpenOutput("ucr_open", "ucr_write")
UcrOpenFails == OpenOutputFails("ucr_open")
UcrWrite == WriteOutput("ucr_write", "done", "True")
UcrWriteFails == WriteOutputFails("ucr_write")

\* A second StyleProcessor, run on what the first one produced: the output of
\* a successful run is moved to the target path and process() is called with
\* the same template and the same output path.
Rerun ==
  /\ pc = "done"
  /\ result = "True"
  /\ first_output = Absent
  /\ output_path \notin {template_path, target_path}
  /\ first_target' = fs[target_path]
  /\ first_output' = fs[output_path]
  /\ fs' = [fs EXCEPT ![target_path] = fs[output_path], ![output_path] = Absent]
  /\ fs0' = fs'
  /\ pc' = "extract"
  /\ result' = "none"
  /\ template_styles_xml_root' = <<>>
  /\ template_style_id_mapping' = <<>>
  /\ target_styles_xml_root' = <<>>
  /\ style_mapping' = EmptyMap
  /\ temp_dir' = NoPackage
  /\ writes' = 0
  /\ read_back' = FALSE
  /\ UNCHANGED <<output_path, search_string, results, shell>>

Next ==
  \/ ExtractTemplateStyles
  \/ AnalyzeTargetDocument
  \/ BuildStyleMapping
  \/ UsdMerge
  \/ UsdOpen
  \/ UsdOpenFails
  \/ UsdWrite
  \/ UsdWriteFails
  \/ UcrRewrite
  \/ UcrOpen
  \/ UcrOpenFails
  \/ UcrWrite
  \/ UcrWriteFails

\* process(), and then process() again on what it produced
NextRerun == Next \/ Rerun

\* ------------------------------------------------------------------ inputs
SeqsUpTo(S, n) == UNION {[1..k -> S] : k \in 0..n}

Ref(kind, val) == [kind |-> kind, val |-> val]
RefKinds == {"pStyle", "rStyle", "tblStyle"}

\* style elements of template style parts: the two of the spec's example, a
\* lower-case heading, a Normal with an empty id, a style without w:styleId,
\* a w:name without w:val
TplStyles ==
  {StyleNode("H1T", "Heading1"), StyleNode("NormalT", "Normal"),
   StyleNode("H2T", "heading 2"), StyleNode("", "Normal"),
   StyleNode(None, "BodyText"), StyleNode("H1T", None)}

\* style elements of target style parts: the two of the spec's example, a
\* lower-case heading, an id the template uses too, a w:name without w:val,
\* a style without w:name
TgtStyles ==
  {StyleNode("H1X", "Heading1"), StyleNode("BTX", "BodyText"),
   StyleNode("h1X", "heading 1"), StyleNode("NormalT", "Normal"),
   StyleNode("BTX", None), StyleNode("NoName", NoElem)}

\* style names that differ by letter case or by heading level only
TplNameStyles ==
  {StyleNode("H2T", "heading 2"), StyleNode("H3T", "heading 1"),
   StyleNode("H1T", "Heading1"), StyleNode("NormalT", "Normal")}
TgtNameStyles ==
  {StyleNode("hx", "heading1"), StyleNode("h1X", "heading 1"),
   StyleNode("nx", "normal"), StyleNode("BTX", "BodyText")}

ExampleTemplate == <<StyleNode("H1T", "Heading1"), StyleNode("NormalT", "Normal")>>
ExampleTarget == <<StyleNode("H1X", "Heading1"), StyleNode("BTX", "BodyText")>>
ExampleDoc == <<Ref("pStyle", "H1X"), Ref("rStyle", "BTX"), Ref("tblStyle", "TblX")>>

OtherNames == {"word/numbering.xml", "word/media/image1.png"}
OtherParts == UNION {[N -> {"bytes1", "bytes2"}] : N \in SUBSET OtherNames}
ExampleOthers == [n \in OtherNames |-> "bytes1"]

GoodFile(styles_root, doc, others) ==
  ZipOf(Package(Part("orig", styles_root), Part("orig", doc), others))

\* trees with nesting, for the merge: the root's children are style
\* elements, w:docDefaults and nested w:styles elements
MergeTplTops ==
  {StyleNode("H1T", "Heading1"), DocDefaultsNode("defaultsT"),
   StylesNode(<<StyleNode("NormalT", "Normal")>>),
   StylesNode(<<DocDefaultsNode("defaultsT2")>>)}
MergeTgtKids == {StyleNode("BTX", "BodyText"), DocDefaultsNode("defaultsX")}
MergeTgtTops ==
  {StyleNode("BTX", "BodyText"), StyleNode("H1T", "Heading1"), DocDefaultsNode("defaultsX")}
  \cup {StylesNode(k) : k \in SeqsUpTo(MergeTgtKids, MaxKids)}
  \cup {StylesNode(<<DocDefaultsNode("defaultsX"), DocDefaultsNode("defaultsX")>>)}

\* catalogs for the rewrite: the example; a chain H1X -> H1T -> NormalT; a
\* template style without id; a target style without id; nothing to map
RewriteCatalogs ==
  {<<ExampleTemplate, ExampleTarget>>,
   <<<<StyleNode("H1T", "Heading1"), StyleNode("NormalT", "BodyText")>>,
     <<StyleNode("H1X", "Heading1"), StyleNode("H1T", "BodyText")>>>>,
   <<<<StyleNode(None, "BodyText"), StyleNode("H1T", "Heading1")>>, ExampleTarget>>,
   <<ExampleTemplate, <<StyleNode(None, "Heading1")>>>>,
   <<<<>>, ExampleTarget>>}
RefVals == {"H1X", "BTX", "H1T", "Unknown", None}
Refs == {Ref(k, v) : k \in RefKinds, v \in RefVals}

\* a package some earlier run left at the output path
OldOutput == GoodFile(<<StyleNode("Old", "Old")>>, <<>>, [n \in {"word/old.xml"} |-> "bytes0"])

TemplateFiles ==
  {GoodFile(ExampleTemplate, <<>>, EmptyMap), Corrupt, Absent,
   ZipOf(Package(MalformedPart, Part("orig", <<>>), EmptyMap)),
   ZipOf(Package(MissingPart, Part("orig", <<>>), EmptyMap))}

TargetFilesWith(others) ==
  {GoodFile(ExampleTarget, ExampleDoc, others), Corrupt, Absent,
   ZipOf(Package(MalformedPart, Part("orig", ExampleDoc), others)),
   ZipOf(Package(MissingPart, Part("orig", ExampleDoc), others)),
   ZipOf(Package(Part("orig", ExampleTarget), MalformedPart, others)),
   ZipOf(Package(Part("orig", ExampleTarget), MissingPart, others))}

\* the state when process() is called: the three files, and the output path
\* the StyleProcessor was constructed with
InitProcessWith(tpl, tgt, out, opath, needle) ==
  /\ fs = [p \in Paths |-> IF p = template_path THEN tpl
                           ELSE IF p = target_path THEN tgt ELSE out]
  /\ fs0 = fs
  /\ output_path = opath
  /\ pc = "extract"
  /\ result = "none"
  /\ template_styles_xml_root = <<>>
  /\ template_style_id_mapping = <<>>
  /\ target_styles_xml_root = <<>>
  /\ style_mapping = EmptyMap
  /\ temp_dir = NoPackage
  /\ writes = 0
  /\ read_back = FALSE
  /\ first_target = Absent
  /\ first_output = Absent
  /\ search_string = needle
  /\ results = <<>>
  /\ ShellInit
InitWith(tpl, tgt, out, opath) == InitProcessWith(tpl, tgt, out, opath, <<>>)

\* every kind of file at every path, every output path
InitFiles ==
  \E others \in OtherParts, tpl \in TemplateFiles, out \in {Absent, OldOutput}, opath \in Paths :
    \E tgt \in TargetFilesWith(others) : InitWith(tpl, tgt, out, opath)

\* every pair of flat catalogs
InitCatalogs ==
  \E t \in SeqsUpTo(TplStyles, MaxStyles), g \in SeqsUpTo(TgtStyles, MaxStyles) :
    InitWith(GoodFile(t, <<>>, EmptyMap), GoodFile(g, ExampleDoc, ExampleOthers),
             Absent, "out.docx")

\* every pair of nested style trees
InitTrees ==
  \E t \in SeqsUpTo(MergeTplTops, MaxStyles), g \in SeqsUpTo(MergeTgtTops, MaxStyles) :
    InitWith(GoodFile(t, <<>>, EmptyMap), GoodFile(g, ExampleDoc, ExampleOthers),
             Absent, "out.docx")

\* every content part
InitDocs ==
  \E c \in RewriteCatalogs, d \in SeqsUpTo(Refs, MaxRefs) :
    InitWith(GoodFile(c[1], <<>>, EmptyMap), GoodFile(c[2], d, ExampleOthers),
             Absent, "out.docx")

\* every pair of catalogs whose names differ by case or level
InitNames ==
  \E t \in SeqsUpTo(TplNameStyles, MaxStyles), g \in SeqsUpTo(TgtNameStyles, MaxStyles) :
    InitWith(GoodFile(t, <<>>, EmptyMap), GoodFile(g, ExampleDoc, ExampleOthers),
             Absent, "out.docx")

Init == InitFiles \/ InitCatalogs \/ InitTrees \/ InitDocs \/ InitNames

Spec == Init /\ [][Next]_vars

\* the runs on nested style trees, each followed by a second run
SpecRerun == InitTrees /\ [][NextRerun]_vars

\* ===================================================== get_styles_by_string
\* A text is the sequence of its characters, so that `needle in text` is a
\* test the model computes.
IsSubstring(needle, text) ==
  \E k \in 0..(Len(text) - Len(needle)) : SubSeq(text, k + 1, k + Len(needle)) = needle

\* The content part read by the query: the body is a sequence of blocks, a
\* block is a paragraph or a table.  A paragraph has the w:val of its
\* w:pStyle (NoElem: no w:pStyle, None: no w:val), its w:numPr (there or not)
\* and the texts of its w:t elements in document order; a table has the w:val
\* of its w:tblStyle and the paragraphs of its cells in document order.
Para(style, numPr, texts) ==
  [kind |-> "p", style |-> style, numPr |-> numPr, texts |-> texts, paras |-> <<>>]
Table(style, paras) ==
  [kind |-> "tbl", style |-> style, numPr |-> FALSE, texts |-> <<>>, paras |-> paras]

\* xpath('//w:body//w:p'): every paragraph, those of table cells included
BodyParagraphs(body) ==
  Concat([i \in 1..Len(body) |-> IF body[i].kind = "p" THEN <<body[i]>> ELSE body[i].paras])

\* xpath('//w:body//w:tbl')
BodyTables(body) == SelectSeq(body, LAMBDA b : b.kind = "tbl")

\* (the text of the first w:t only)
FirstRunText(elem) ==
  IF elem.kind = "p"
  THEN (IF elem.texts = <<>> THEN <<>> ELSE elem.texts[1])
  ELSE Concat(Concat([j \in 1..Len(elem.paras) |-> elem.paras[j].texts]))

\* the loop over elem.xpath('.//w:t'): the texts of the element, concatenated
ElemText(elem) ==
  IF elem.kind = "p" THEN Concat(elem.texts)
  ELSE Concat(Concat([j \in 1..Len(elem.paras) |-> elem.paras[j].texts]))

\* A style element as _parse_style_attributes reads it: the w:ind of its
\* w:pPr (there or not, each attribute a value or None) and whether its w:pPr
\* holds a w:numPr
Ind(left, right, firstLine) ==
  [present |-> TRUE, left |-> left, right |-> right, firstLine |-> firstLine]
NoInd == [present |-> FALSE, left |-> None, right |-> None, firstLine |-> None]
QStyleNode(id, name, ind, numPr) ==
  [tag |-> "style", id |-> id, name |-> name, kids |-> <<>>, ind |-> ind, numPr |-> numPr,
   type |-> NoElem]
\* the same element with a w:type attribute
WithType(style_elem, type) == [style_elem EXCEPT !.type = type]

\* Style.__init__: the fields of the Style object read here; the int 0 of the
\* indent defaults is written "0"
DefaultIndent == "0"
\* a style name: a literal prefix (f-string) and what follows it
StyleName(prefix, rest) == <<prefix, rest>>
NewStyle(style_id, style_name, style_type) ==
  [style_id |-> style_id, style_name |-> style_name, style_type |-> style_type,
   indent_left |-> DefaultIndent, indent_right |-> DefaultIndent,
   first_line_indent |-> DefaultIndent]

\* (_parse_style_attributes leaving the style type as it was given)
ParseStyleAttributesKeepType(style, style_elem) ==
  [style EXCEPT
     !.indent_left = IF style_elem.ind.present THEN style_elem.ind.left ELSE @,
     !.indent_right = IF style_elem.ind.present THEN style_elem.ind.right ELSE @,
     !.first_line_indent = IF style_elem.ind.present THEN style_elem.ind.firstLine ELSE @]

\* _parse_style_attributes: with a w:ind in the style, the three indents are
\* what indent.get() returns; with a w:numPr, the style type becomes 'list'
ParseStyleAttributes(style, style_elem) ==
  [style EXCEPT
     !.indent_left = IF style_elem.ind.present THEN style_elem.ind.left ELSE @,
     !.indent_right = IF style_elem.ind.present THEN style_elem.ind.right ELSE @,
     !.first_line_indent = IF style_elem.ind.present THEN style_elem.ind.firstLine ELSE @,
     !.style_type = IF style_elem.numPr THEN "list" ELSE @]

\* xpath('//w:style[@w:styleId="{style_id}"]'): a style element without
\* w:styleId matches no id, and the id None is looked up as the text "None"
StyleElemsWithId(styles_root, style_id) ==
  SelectSeq(StyleElems(styles_root),
            LAMBDA e : e.id # None /\ style_id # None /\ e.id = style_id)

\* the placeholders of the three loops; the Chinese literals of the code are
\* written in English here (unnamed style, unnamed table style, unnamed list
\* style, default style, default table style, default list style)
UnnamedPrefix(type) ==
  CASE type = "paragraph" -> "unnamed_style_"
    [] type = "table" -> "unnamed_table_style_"
    [] type = "list" -> "unnamed_list_style_"
DefaultStyle(type) ==
  CASE type = "paragraph" -> NewStyle("default", StyleName("", "default_style"), type)
    [] type = "table" -> NewStyle("default_table", StyleName("", "default_table_style"), type)
    [] type = "list" -> NewStyle("default_list", StyleName("", "default_list_style"), type)

\* (an id the style part does not define treated like no reference at all)
StyleForKnownOnly(ref, styles_root, type) ==
  IF ref = NoElem \/ StyleElemsWithId(styles_root, ref) = <<>> THEN DefaultStyle(type)
  ELSE LET style_elem == StyleElemsWithId(styles_root, ref)[1]
       IN ParseStyleAttributes(
            NewStyle(ref, StyleName("", IF style_elem.name = NoElem THEN ref ELSE style_elem.name),
                     type),
            style_elem)

\* the Style object one loop builds for a matched element: `ref` is the w:val
\* of its style reference
StyleFor(ref, styles_root, type) ==
  IF ref = NoElem THEN DefaultStyle(type)
  ELSE IF StyleElemsWithId(styles_root, ref) = <<>>
  THEN NewStyle(ref, StyleName(UnnamedPrefix(type), ref), type)
  ELSE LET style_elem == StyleElemsWithId(styles_root, ref)[1]
       IN ParseStyleAttributes(
            NewStyle(ref, StyleName("", IF style_elem.name = NoElem THEN ref ELSE style_elem.name),
                     type),
            style_elem)

\* the indices (from 1) of the elements one loop reports
Matching(elems, needle, OnlyLists) ==
  SelectSeq([i \in 1..Len(elems) |-> i],
            LAMBDA i : /\ OnlyLists => elems[i].numPr
                       /\ IsSubstring(needle, ElemText(elems[i])))

\* (the loops counting from 1)
OccurrencesFromOne(elems, needle, styles_root, type, OnlyLists) ==
  LET at == Matching(elems, needle, OnlyLists)
  IN [k \in 1..Len(at) |->
        [type |-> type, index |-> at[k], text |-> ElemText(elems[at[k]]),
         style |-> StyleFor(elems[at[k]].style, styles_root, type)]]

\* results.append({...}) of one loop; enumerate() counts from 0
Occurrences(elems, needle, styles_root, type, OnlyLists) ==
  LET at == Matching(elems, needle, OnlyLists)
  IN [k \in 1..Len(at) |->
        [type |-> type, index |-> at[k] - 1, text |-> ElemText(elems[at[k]]),
         style |-> StyleFor(elems[at[k]].style, styles_root, type)]]

\* loop 1: every paragraph whose text holds the needle
ParagraphOccurrences(elems, needle, styles_root) ==
  Occurrences(elems, needle, styles_root, "paragraph", FALSE)

\* target_zip.read('word/styles.xml') happens inside the loops, for a matched
\* element that has a style reference
ReadsStyles(body, needle) ==
  \/ \E i \in 1..Len(BodyParagraphs(body)) :
       /\ IsSubstring(needle, ElemText(BodyParagraphs(body)[i]))
       /\ BodyParagraphs(body)[i].style # NoElem
  \/ \E i \in 1..Len(BodyTables(body)) :
       /\ IsSubstring(needle, ElemText(BodyTables(body)[i]))
       /\ BodyTables(body)[i].style # NoElem

\* (the style part of the template package)
TemplateStylesPart == fs[template_path].pkg.styles
\* target_zip.read('word/styles.xml'): the style part of the scanned package
ScannedStylesPart == fs[target_path].pkg.styles

\* get_styles_by_string: the three loops, or [] when anything raised
get_styles_by_string(file, styles_part, needle) ==
  IF file.st # "zip" \/ ~Parses(file.pkg.document) THEN <<>>
  ELSE LET body == fromstring(file.pkg.document)
       IN IF ReadsStyles(body, needle) /\ ~Parses(styles_part) THEN <<>>
          ELSE LET styles_root == fromstring(styles_part)
               IN ParagraphOccurrences(BodyParagraphs(body), needle, styles_root)
                  \o Occurrences(BodyTables(body), needle, styles_root, "table", FALSE)
                  \o Occurrences(BodyParagraphs(body), needle, styles_root, "list", TRUE)

GetStylesByString ==
  /\ pc = "query"
  /\ results' = get_styles_by_string(fs[target_path], ScannedStylesPart, search_string)
  /\ pc' = "returned"
  /\ UNCHANGED <<fs, fs0, output_path, result, template_styles_xml_root,
                 template_style_id_mapping, target_styles_xml_root, style_mapping,
                 temp_dir, writes, read_back, first_target, first_output, search_string,
                 shell>>

\* style_elem.get(type, 'paragraph') and the if/elif chain after it
StyleTypeOf(style_elem) ==
  LET style_type == IF style_elem.type = NoElem THEN "paragraph" ELSE style_elem.type
  IN IF style_type \in {"paragraph", "character", "table"} THEN style_type
     ELSE "paragraph"

\* the loop of get_template_styles and get_target_styles: a Style object for
\* every style element that has a w:name
StylesOf(styles_root) ==
  LET named == SelectSeq(StyleElems(styles_root), LAMBDA e : e.name # NoElem)
  IN [k \in 1..Len(named) |->
        ParseStyleAttributes(NewStyle(named[k].id, named[k].name, StyleTypeOf(named[k])),
                             named[k])]

\* get_template_styles: [] when extract_template_styles returned None
get_template_styles(file) ==
  IF file.st = "zip" /\ Parses(file.pkg.styles)
  THEN StylesOf(fromstring(file.pkg.styles)) ELSE <<>>

\* get_target_styles: [] when analyze_target_document returned None, which
\* reads the content part too
get_target_styles(file) ==
  IF file.st = "zip" /\ Parses(file.pkg.styles) /\ Parses(file.pkg.document)
  THEN StylesOf(fromstring(file.pkg.styles)) ELSE <<>>

GetTemplateStyles ==
  /\ pc = "query"
  /\ results' = get_template_styles(fs[template_path])
  /\ pc' = "template_styles"
  /\ UNCHANGED <<fs, fs0, output_path, result, template_styles_xml_root,
                 template_style_id_mapping, target_styles_xml_root, style_mapping,
                 temp_dir, writes, read_back, first_target, first_output, search_string,
                 shell>>

GetTargetStyles ==
  /\ pc = "query"
  /\ results' = get_target_styles(fs[target_path])
  /\ pc' = "target_styles"
  /\ UNCHANGED <<fs, fs0, output_path, result, template_styles_xml_root,
                 template_style_id_mapping, target_styles_xml_root, style_mapping,
                 temp_dir, writes, read_back, first_target, first_output, search_string,
                 shell>>

NextQuery == GetStylesByString \/ GetTemplateStyles \/ GetTargetStyles

\* ------------------------------------------------------ inputs of the query
\* the texts of w:t elements and the needles; the four characters of the
\* spec's example text are written zheng, wen, nei, rong ("zheng wen": body
\* text, "nei rong": content)
RunTexts ==
  {<<>>, <<"zheng">>, <<"wen">>, <<"zheng", "wen">>, <<"nei", "rong">>}
Needles == {<<"zheng", "wen">>, <<"wen">>, <<>>, <<"rong", "zheng">>}
WholeText == <<"zheng", "wen", "nei", "rong">>

\* style elements of the scanned style part: the spec's example, the same id
\* again with another name and a first-line indent, a w:ind with left and
\* right only, a list style, a table style, a style without w:name, a w:name
\* without w:val, a style without w:styleId
QueryStyles ==
  {QStyleNode("BTX", "BodyText", NoInd, FALSE),
   QStyleNode("BTX", "Other", Ind(None, None, "288"), FALSE),
   QStyleNode("BTX", "BodyText", Ind("720", "0", None), FALSE),
   QStyleNode("LstX", "ListParagraph", Ind("720", None, "360"), TRUE),
   QStyleNode("TblX", "TableGrid", NoInd, FALSE),
   QStyleNode("NoName", NoElem, NoInd, FALSE),
   QStyleNode("LstX", None, NoInd, FALSE),
   QStyleNode(None, "Ghost", NoInd, FALSE)}
ExampleQueryStyles ==
  <<QStyleNode("BTX", "BodyText", NoInd, FALSE),
    QStyleNode("LstX", "ListParagraph", Ind("720", None, "360"), TRUE),
    QStyleNode("TblX", "TableGrid", NoInd, FALSE)>>
\* the template names BTX otherwise
QueryTemplateStyles == <<QStyleNode("BTX", "TemplateBody", NoInd, FALSE)>>
QueryTrees ==
  {ExampleQueryStyles, <<>>,
   <<QStyleNode("BTX", "BodyText", Ind("720", "0", None), FALSE)>>,
   <<QStyleNode("NoName", NoElem, NoInd, FALSE), QStyleNode("BTX", None, NoInd, TRUE)>>}

ParaRefs == {"BTX", "Unknown", "NoName", NoElem, None}
QueryBlocks ==
  {Para("BTX", FALSE, <<WholeText>>),
   Para("Unknown", FALSE, <<WholeText>>),
   Para(NoElem, FALSE, <<<<"nei", "rong">>>>),
   Para("LstX", TRUE, <<<<"zheng", "wen">>>>),
   Para(NoElem, TRUE, <<WholeText>>),
   Table("TblX", <<Para("BTX", FALSE, <<<<"zheng", "wen">>>>)>>),
   Table(NoElem, <<Para(NoElem, FALSE, <<<<"nei", "rong">>>>),
                   Para(NoElem, TRUE, <<<<"zheng">>, <<"wen">>>>)>>),
   Table("Unknown", <<>>)}
ExampleBodies ==
  {<<Para("BTX", FALSE, <<WholeText>>)>>,
   <<Para("LstX", TRUE, <<WholeText>>)>>,
   <<Table("TblX", <<Para("NoName", FALSE, <<WholeText>>)>>)>>}

\* style elements with a w:type: the three types the code names, the fourth
\* type of the format (numbering), no type, and paragraph and character styles
\* whose w:pPr holds a w:numPr
StyleTypes == {"paragraph", "character", "table", "numbering"}
TypedStyles ==
  {WithType(QStyleNode("BTX", "BodyText", NoInd, FALSE), t) : t \in StyleTypes}
  \cup {QStyleNode("NoType", "Plain", NoInd, FALSE),
        QStyleNode("LstX", "ListParagraph", NoInd, TRUE),
        QStyleNode("NoName", NoElem, NoInd, FALSE)}
  \cup {WithType(QStyleNode("LstX", "ListParagraph", Ind("720", None, "360"), TRUE), t) :
          t \in {"paragraph", "character"}}

\* the state when get_styles_by_string is called on a new StyleProcessor
InitQueryWith(tpl, tgt, needle) ==
  /\ fs = [p \in Paths |-> IF p = template_path THEN tpl
                           ELSE IF p = target_path THEN tgt ELSE Absent]
  /\ fs0 = fs
  /\ output_path = "out.docx"
  /\ pc = "query"
  /\ result = "none"
  /\ template_styles_xml_root = <<>>
  /\ template_style_id_mapping = <<>>
  /\ target_styles_xml_root = <<>>
  /\ style_mapping = EmptyMap
  /\ temp_dir = NoPackage
  /\ writes = 0
  /\ read_back = FALSE
  /\ first_target = Absent
  /\ first_output = Absent
  /\ search_string = needle
  /\ results = <<>>
  /\ ShellInit

QueryTemplate == GoodFile(QueryTemplateStyles, <<>>, EmptyMap)

\* one paragraph, every sequence of texts
InitQueryTexts ==
  \E ref \in ParaRefs, numPr \in BOOLEAN, texts \in SeqsUpTo(RunTexts, MaxRuns),
     tree \in QueryTrees, needle \in Needles :
    InitQueryWith(QueryTemplate,
                  GoodFile(tree, <<Para(ref, numPr, texts)>>, ExampleOthers), needle)

\* every body of paragraphs, list items and tables
InitQueryBodies ==
  \E body \in SeqsUpTo(QueryBlocks, MaxBlocks), tree \in QueryTrees, needle \in Needles :
    InitQueryWith(QueryTemplate, GoodFile(tree, body, ExampleOthers), needle)

\* every style part
InitQueryStyles ==
  \E body \in ExampleBodies, tree \in SeqsUpTo(QueryStyles, MaxStyles), needle \in Needles :
    InitQueryWith(QueryTemplate, GoodFile(tree, body, ExampleOthers), needle)

\* every kind of target file
InitQueryFiles ==
  \E body \in ExampleBodies, needle \in Needles :
    \E tgt \in {Corrupt, Absent,
                ZipOf(Package(MalformedPart, Part("orig", body), EmptyMap)),
                ZipOf(Package(MissingPart, Part("orig", body), EmptyMap)),
                ZipOf(Package(Part("orig", ExampleQueryStyles), MalformedPart, EmptyMap)),
                ZipOf(Package(Part("orig", ExampleQueryStyles), MissingPart, EmptyMap))} :
      InitQueryWith(QueryTemplate, tgt, needle)

\* every style part of typed styles, in the template and in the target
InitQueryTypes ==
  \E tpl \in SeqsUpTo(TypedStyles, MaxStyles), tgt \in SeqsUpTo(TypedStyles, MaxKids),
     body \in ExampleBodies :
    InitQueryWith(GoodFile(tpl, <<>>, EmptyMap), GoodFile(tgt, body, ExampleOthers),
                  <<"zheng", "wen">>)

\* get_styles_by_string of a StyleProcessor whose target is the file a
\* successful process() left at the output path
QueryOutput ==
  /\ pc = "done"
  /\ result = "True"
  /\ results' = get_styles_by_string(fs[output_path], fs[output_path].pkg.styles,
                                     search_string)
  /\ pc' = "output_queried"
  /\ UNCHANGED <<fs, fs0, output_path, result, template_styles_xml_root,
                 template_style_id_mapping, target_styles_xml_root, style_mapping,
                 temp_dir, writes, read_back, first_target, first_output, search_string,
                 shell>>

NextBodies == Next \/ QueryOutput

\* catalogs for a run over a body: the spec's example with a table style; a
\* chain H1X -> H1T -> NormalT; a template style without w:styleId; no
\* template style at all
BodyCatalogs ==
  {<<<<QStyleNode("H1T", "Heading1", NoInd, FALSE), QStyleNode("NormalT", "Normal", NoInd, FALSE)>>,
     <<QStyleNode("H1X", "Heading1", NoInd, FALSE),
       QStyleNode("BTX", "BodyText", Ind("720", None, "360"), TRUE),
       QStyleNode("TblX", "TableGrid", NoInd, FALSE)>>>>,
   <<<<QStyleNode("H1T", "Heading1", NoInd, FALSE), QStyleNode("NormalT", "BodyText", NoInd, FALSE)>>,
     <<QStyleNode("H1X", "Heading1", NoInd, FALSE), QStyleNode("H1T", "BodyText", NoInd, FALSE)>>>>,
   <<<<QStyleNode(None, "BodyText", NoInd, FALSE)>>,
     <<QStyleNode("BTX", "BodyText", NoInd, FALSE)>>>>,
   <<<<>>, <<QStyleNode("H1X", "Heading1", NoInd, FALSE)>>>>}
BodyBlocks ==
  {Para("H1X", FALSE, <<WholeText>>),
   Para("BTX", TRUE, <<<<"zheng">>, <<"wen">>>>),
   Para("H1T", TRUE, <<<<"nei", "rong">>>>),
   Para(NoElem, FALSE, <<<<"zheng", "wen">>>>),
   Para("Unknown", FALSE, <<>>),
   Table("TblX", <<Para("BTX", TRUE, <<WholeText>>)>>),
   Table(NoElem, <<Para("H1X", FALSE, <<<<"zheng">>>>), Para(None, FALSE, <<<<"wen">>>>)>>)}
BodyNeedles == {<<"zheng", "wen">>, <<"rong">>, <<>>}

\* process() on every body of paragraphs, list items and tables
InitBodies ==
  \E c \in BodyCatalogs, body \in SeqsUpTo(BodyBlocks, MaxBlocks), needle \in BodyNeedles :
    InitProcessWith(GoodFile(c[1], <<>>, EmptyMap), GoodFile(c[2], body, ExampleOthers),
                    Absent, "out.docx", needle)

SpecBodies == InitBodies /\ [][NextBodies]_vars

InitQuery ==
  InitQueryTexts \/ InitQueryBodies \/ InitQueryStyles \/ InitQueryFiles \/ InitQueryTypes

SpecQuery == InitQuery /\ [][NextQuery]_vars

\* ===================================================== the hosting shell
\* The recognition tab of the main window (main.py).  Qt runs every handler
\* to its end on the GUI thread; a modal dialog runs a nested event loop, in
\* which the queued finished/error signals of OCR threads are still
\* delivered.  While a dialog is open no user event is taken here (a dialog
\* that is only window-modal would allow more, never less).
Top(stack) == IF stack = <<>> THEN "none" ELSE stack[Len(stack)]
Pop(stack) == SubSeq(stack, 1, Len(stack) - 1)

\* start_ocr_recognition from the "disable the buttons" comment on: the four
\* buttons are disabled and a new OCRThread is started.  Nothing in the
\* function looks at self.ocr_thread or at the buttons before.
StartOcrRecognition ==
  /\ screenshot_btn' = FALSE
  /\ upload_btn' = FALSE
  /\ copy_btn' = FALSE
  /\ save_btn' = FALSE
  /\ status_bar' = "recognizing"
  /\ ocr_threads' = ocr_threads + 1

\* screenshot_btn.clicked -> capture_screenshot: a ScreenshotWindow is shown
\* (one that was open is no longer referenced); the buttons stay as they are
CaptureScreenshot ==
  /\ screenshot_btn /\ modal = <<>>
  /\ screenshot_window' = "open"
  /\ status_bar' = "preparing_screenshot"
  /\ UNCHANGED <<screenshot_btn, upload_btn, copy_btn, save_btn, ocr_threads, modal>>
  /\ UNCHANGED engine

\* ... or ScreenshotWindow() raises: QMessageBox.critical, then the status
CaptureScreenshotFails ==
  /\ screenshot_btn /\ modal = <<>>
  /\ modal' = <<"screenshot_error">>
  /\ status_bar' = "preparing_screenshot"
  /\ UNCHANGED <<screenshot_btn, upload_btn, copy_btn, save_btn, screenshot_window,
                 ocr_threads>>
  /\ UNCHANGED engine
DismissScreenshotError ==
  /\ Top(modal) = "screenshot_error"
  /\ modal' = Pop(modal)
  /\ status_bar' = "screenshot_failed"
  /\ UNCHANGED <<screenshot_btn, upload_btn, copy_btn, save_btn, screenshot_window,
                 ocr_threads>>
  /\ UNCHANGED engine

\* ScreenshotWindow.mouseReleaseEvent with a region of more than 10 x 10:
\* screenshot_taken -> on_screenshot_taken -> start_ocr_recognition, then
\* the window closes
SelectionCompleted ==
  /\ screenshot_window = "open" /\ modal = <<>>
  /\ ocr_threads < MaxThreads
  /\ StartOcrRecognition
  /\ screenshot_window' = "none"
  /\ UNCHANGED modal
  /\ UNCHANGED engine

\* a smaller region, or Escape: the window closes
SelectionCancelled ==
  /\ screenshot_window = "open" /\ modal = <<>>
  /\ screenshot_window' = "none"
  /\ UNCHANGED <<screenshot_btn, upload_btn, copy_btn, save_btn, ocr_threads, modal,
                 status_bar>>
  /\ UNCHANGED engine

\* upload_btn.clicked -> upload_file: QFileDialog.getOpenFileName opens
UploadFile ==
  /\ upload_btn /\ modal = <<>>
  /\ modal' = <<"file_dialog">>
  /\ UNCHANGED <<screenshot_btn, upload_btn, copy_btn, save_btn, screenshot_window,
                 ocr_threads, status_bar>>
  /\ UNCHANGED engine
\* a supported file was chosen: start_ocr_recognition(file_path)
UploadChosen ==
  /\ Top(modal) = "file_dialog"
  /\ ocr_threads < MaxThreads
  /\ modal' = Pop(modal)
  /\ StartOcrRecognition
  /\ UNCHANGED screenshot_window
  /\ UNCHANGED engine
\* the dialog was cancelled (file_path is empty)
UploadCancelled ==
  /\ Top(modal) = "file_dialog"
  /\ modal' = Pop(modal)
  /\ UNCHANGED <<screenshot_btn, upload_btn, copy_btn, save_btn, screenshot_window,
                 ocr_threads, status_bar>>
  /\ UNCHANGED engine
\* a file of another format: QMessageBox.warning, return
UploadUnsupported ==
  /\ Top(modal) = "file_dialog"
  /\ modal' = Append(Pop(modal), "warning")
  /\ UNCHANGED <<screenshot_btn, upload_btn, copy_btn, save_btn, screenshot_window,
                 ocr_threads, status_bar>>
  /\ UNCHANGED engine
DismissWarning ==
  /\ Top(modal) = "warning"
  /\ modal' = Pop(modal)
  /\ UNCHANGED <<screenshot_btn, upload_btn, copy_btn, save_btn, screenshot_window,
                 ocr_threads, status_bar>>
  /\ UNCHANGED engine

\* OCRThread.finished -> on_ocr_finished (the result has the shape ocr_api
\* returns): the four buttons are enabled
OnOcrFinished ==
  /\ ocr_threads > 0
  /\ ocr_threads' = ocr_threads - 1
  /\ screenshot_btn' = TRUE
  /\ upload_btn' = TRUE
  /\ copy_btn' = TRUE
  /\ save_btn' = TRUE
  /\ status_bar' = "recognition_done"
  /\ UNCHANGED <<screenshot_window, modal>>
  /\ UNCHANGED engine

\* OCRThread.error -> on_ocr_error: QMessageBox.critical first ...
OnOcrError ==
  /\ ocr_threads > 0
  /\ ocr_threads' = ocr_threads - 1
  /\ modal' = Append(modal, "critical")
  /\ UNCHANGED <<screenshot_btn, upload_btn, copy_btn, save_btn, screenshot_window,
                 status_bar>>
  /\ UNCHANGED engine
\* ... and when it is dismissed the two recognition buttons are enabled
OnOcrErrorDismissed ==
  /\ Top(modal) = "critical"
  /\ modal' = Pop(modal)
  /\ screenshot_btn' = TRUE
  /\ upload_btn' = TRUE
  /\ status_bar' = "recognition_failed"
  /\ UNCHANGED <<copy_btn, save_btn, screenshot_window, ocr_threads>>
  /\ UNCHANGED engine

NextOcr ==
  \/ CaptureScreenshot
  \/ CaptureScreenshotFails
  \/ DismissScreenshotError
  \/ SelectionCompleted
  \/ SelectionCancelled
  \/ UploadFile
  \/ UploadChosen
  \/ UploadCancelled
  \/ UploadUnsupported
  \/ DismissWarning
  \/ OnOcrFinished
  \/ OnOcrError
  \/ OnOcrErrorDismissed

\* the main window after main(): no StyleProcessor has been made yet
InitOcr ==
  /\ fs = [p \in Paths |-> Absent]
  /\ fs0 = fs
  /\ output_path = "out.docx"
  /\ pc = "shell"
  /\ result = "none"
  /\ template_styles_xml_root = <<>>
  /\ template_style_id_mapping = <<>>
  /\ target_styles_xml_root = <<>>
  /\ style_mapping = EmptyMap
  /\ temp_dir = NoPackage
  /\ writes = 0
  /\ read_back = FALSE
  /\ first_target = Absent
  /\ first_output = Absent
  /\ search_string = <<>>
  /\ results = <<>>
  /\ ShellInit

SpecOcr == InitOcr /\ [][NextOcr]_vars

\* ============================================================== the claims
TemplateRoot0 == fromstring(fs0[template_path].pkg.styles)
TargetRoot0 == fromstring(fs0[target_path].pkg.styles)
TargetDoc0 == fromstring(fs0[target_path].pkg.document)
\* the style part update_styles_definition has produced
MergedPart == temp_dir.styles
AfterMerge == pc = "usd_open"
\* the run was given an output path of its own
DistinctOutput == output_path \notin {template_path, target_path}

\* C1: after the definition merge the style ids of the output style part are
\* exactly the style ids of the template.  (The claim as stated; the code
\* leaves the target's own style elements in place when the target's root has
\* no nested w:styles element.)
C1_FullReplacement ==
  AfterMerge => StyleIdsOf(fromstring(MergedPart)) = StyleIdsOf(TemplateRoot0)

\* C2: when update_content_references has rewritten the content part, every
\* reference whose id was a key of the map carries the mapped id and every
\* other reference is the element it was; the same holds of the content part
\* of the package a successful run leaves at the output path.
RewrittenFrom(doc0, doc1) ==
  /\ Len(doc1) = Len(doc0)
  /\ \A i \in 1..Len(doc0) :
       IF doc0[i].val \in DOMAIN style_mapping
       THEN doc1[i] = Ref(doc0[i].kind, style_mapping[doc0[i].val])
       ELSE doc1[i] = doc0[i]
C2_RewriteFollowsMapping ==
  /\ pc \in {"ucr_open", "ucr_write"} => RewrittenFrom(TargetDoc0, fromstring(temp_dir.document))
  /\ result = "True" => RewrittenFrom(TargetDoc0, fromstring(fs[output_path].pkg.document))
C2_Witness ==
  /\ result = "True"
  /\ \E i, j \in 1..Len(TargetDoc0) :
       /\ TargetDoc0[i].val \in DOMAIN style_mapping
       /\ fromstring(fs[output_path].pkg.document)[i].val # TargetDoc0[i].val
       /\ TargetDoc0[j].val \notin DOMAIN style_mapping
       /\ TargetDoc0[j].kind # TargetDoc0[i].kind

\* C3: the three passes in order, a pass never reassigning what an earlier one
\* resolved.  With tgt the target catalog and tpl the template catalog, when
\* build_style_mapping has returned:
\*  - a target style whose name is a template style's name maps to the id of
\*    the first template style of that name (whatever the later passes would
\*    give it);
\*  - otherwise a target style with a heading-prefixed name, when the template
\*    has a heading-prefixed style, maps to the first such style's id (the
\*    fallback does not replace it);
\*  - otherwise it maps, if it is mapped, to the id of the first template
\*    style named "Normal", and it is mapped when that id is a non-empty string;
\*  - the spec's example gives H1X -> H1T and BTX -> NormalT.
HasNamed(tpl, name) == \E j \in 1..Len(tpl) : tpl[j][2] = name
FirstIdOf(tpl, P(_)) ==
  tpl[CHOOSE j \in 1..Len(tpl) : P(tpl[j][2]) /\ \A k \in 1..(j - 1) : ~P(tpl[k][2])][1]
HasHeading(tpl) == \E j \in 1..Len(tpl) : StartsWithHeading(tpl[j][2])
MappingOrdered(tgt, tpl, m) ==
  \A i \in 1..Len(tgt) :
    LET id == tgt[i][1]
        name == tgt[i][2]
    IN IF HasNamed(tpl, name)
       THEN id \in DOMAIN m /\ m[id] = FirstIdOf(tpl, LAMBDA n : n = name)
       ELSE IF StartsWithHeading(name) /\ HasHeading(tpl)
       THEN id \in DOMAIN m /\ m[id] = FirstIdOf(tpl, StartsWithHeading)
       ELSE /\ id \in DOMAIN m =>
                 HasNamed(tpl, "Normal") /\ m[id] = FirstIdOf(tpl, LAMBDA n : n = "Normal")
            /\ (HasNamed(tpl, "Normal") /\ Truthy(FirstIdOf(tpl, LAMBDA n : n = "Normal")))
                 => id \in DOMAIN m
C4_OtherPartsCarried ==
  (writes >= 1 /\ fs[output_path].st = "zip")
    => fs[output_path].pkg.others = fs0[target_path].pkg.others
C4_Witness ==
  /\ result = "True"
  /\ writes = 2
  /\ DOMAIN fs0[target_path].pkg.others = OtherNames
  /\ fs[output_path].pkg.others = fs0[target_path].pkg.others
  /\ fs[output_path].pkg.styles # fs0[target_path].pkg.styles

\* C5: a run that fails has written nothing at the output path, here for runs
\* whose output path is not an input path.  (The claim as stated; a failure of
\* the second stage, or of a repack, comes after the output file was opened
\* for writing.)
C5_FailureWritesNothing ==
  (DistinctOutput /\ result = "False") => fs[output_path] = fs0[output_path]

\* C6: when the style part of the template or of the target does not parse,
\* the run fails and the file at the output path stays what it was.
StylePartMalformed ==
  \/ fs0[template_path].st = "zip" /\ fs0[template_path].pkg.styles.fmt = "malformed"
  \/ fs0[target_path].st = "zip" /\ fs0[target_path].pkg.styles.fmt = "malformed"
C6_MalformedStylesLeaveOutput ==
  StylePartMalformed =>
    /\ fs[output_path] = fs0[output_path]
    /\ result # "True"
    /\ pc = "done" => result = "False"
C6_Witness ==
  /\ pc = "done"
  /\ result = "False"
  /\ fs0[target_path].st = "zip" /\ fs0[target_path].pkg.styles.fmt = "malformed"
  /\ fs0[template_path].st = "zip" /\ Parses(fs0[template_path].pkg.styles)
  /\ output_path = "out.docx"
  /\ fs0[output_path] = OldOutput
  /\ fs[output_path] = OldOutput

\* C7: the file at the output path is at every moment what it was before the
\* run or the complete final package, here for runs whose output path is
\* not an input path.  (The claim as stated; the code opens the output path
\* itself for writing, twice.)
C7_StageThenPublish ==
  DistinctOutput =>
    \/ fs[output_path] = fs0[output_path]
    \/ fs[output_path].st = "zip" /\ result = "True"

C9_InputsUnmodified ==
  /\ fs[template_path] = fs0[template_path]
  /\ fs[target_path] = fs0[target_path]

\* C10: after update_styles_definition the template's in-memory style tree
\* still holds every style element and the shared-defaults record it held
\* before.  (The claim as stated; the elements are moved, not copied.)
C10_TemplateTreeKept ==
  AfterMerge => template_styles_xml_root = TemplateRoot0

\* ---- C11
SecondRun == first_output # Absent

\* the number of w:docDefaults children of the w:styles element the merge fills
DefaultsToClear(target_root) ==
  Len(SelectSeq(StylesElemKids(target_root), IsDocDefaults))

SameUpToCase(a, b) == Lower(a) = Lower(b)
TargetCatalog == Catalog(target_styles_xml_root)
ExactMap == ExactPass(TargetCatalog, template_style_id_mapping, 1, EmptyMap)

\* C12 as stated: a target style whose name equals a template style's name up
\* to letter case is mapped to the id of (the first) such template style.
C12_ExactIgnoresCase ==
  pc = "usd" =>
    \A i \in 1..Len(TargetCatalog) :
      LET id == TargetCatalog[i][1]
          name == TargetCatalog[i][2]
      IN (\E j \in 1..Len(template_style_id_mapping) :
             SameUpToCase(template_style_id_mapping[j][2], name))
           => /\ id \in DOMAIN style_mapping
              /\ style_mapping[id] =
                   FirstIdOf(template_style_id_mapping, LAMBDA n : SameUpToCase(n, name))

\* C12, amended: pass 1 compares names exactly, letter case included: it maps
\* a target style if and only if some template style has the very same name,
\* to the id of the first such style, and that entry stays in the final map.
C12_ExactIsCaseSensitive ==
  pc = "usd" =>
    \A i \in 1..Len(TargetCatalog) :
      LET id == TargetCatalog[i][1]
          name == TargetCatalog[i][2]
      IN /\ id \in DOMAIN ExactMap <=> HasNamed(template_style_id_mapping, name)
         /\ id \in DOMAIN ExactMap =>
              /\ ExactMap[id] = FirstIdOf(template_style_id_mapping, LAMBDA n : n = name)
              /\ style_mapping[id] = ExactMap[id]

\* the target's "heading1" next to the template's "Heading1": not matched by
\* pass 1, while "heading 1" is matched with "heading 1"
C12_Witness ==
  /\ pc = "usd"
  /\ \E i \in 1..Len(TargetCatalog) :
       /\ TargetCatalog[i] = <<"hx", "heading1">>
       /\ "hx" \notin DOMAIN ExactMap
  /\ HasNamed(template_style_id_mapping, "Heading1")
  /\ "h1X" \in DOMAIN ExactMap

\* ---- C13
PrefixMap == PrefixPass(TargetCatalog, template_style_id_mapping, 1, ExactMap)

\* C13: of the target styles pass 1 left out, pass 2 maps those whose name
\* starts with 'heading' to the id of the first template style, in catalog
\* order, whose name starts with 'heading' (whatever the levels), and the
\* final map keeps that entry; it maps no other style.
C13_PrefixPassFirstHeading ==
  pc = "usd" =>
    /\ ~PrefixMap.raised
    /\ \A i \in 1..Len(TargetCatalog) :
         LET id == TargetCatalog[i][1]
             name == TargetCatalog[i][2]
         IN id \notin DOMAIN ExactMap =>
              IF StartsWithHeading(name) /\ HasHeading(template_style_id_mapping)
              THEN /\ id \in DOMAIN PrefixMap.map
                   /\ PrefixMap.map[id] = FirstIdOf(template_style_id_mapping, StartsWithHeading)
                   /\ style_mapping[id] = PrefixMap.map[id]
              ELSE id \notin DOMAIN PrefixMap.map

\* a template with "heading 2" before "heading 1", a target "heading1" that
\* pass 1 left out and pass 2 mapped to the first, and a target style without
\* the prefix that pass 2 left out
C13_Witness ==
  /\ pc = "usd"
  /\ template_style_id_mapping = <<<<"H2T", "heading 2">>, <<"H3T", "heading 1">>>>
  /\ TargetCatalog = <<<<"hx", "heading1">>, <<"BTX", "BodyText">>>>
  /\ PrefixMap.map = [k \in {"hx"} |-> "H2T"]

\* ---- C14
\* C14 as stated: every target id passes 1 and 2 left out maps to the id of the
\* template style named "Normal" when the template has one, whatever that id
\* is, and is not mapped when it has none.
C14_FallbackToNormal ==
  pc = "usd" =>
    \A i \in 1..Len(TargetCatalog) :
      LET id == TargetCatalog[i][1]
      IN id \notin DOMAIN PrefixMap.map =>
           IF HasNamed(template_style_id_mapping, "Normal")
           THEN /\ id \in DOMAIN style_mapping
                /\ style_mapping[id] =
                     FirstIdOf(template_style_id_mapping, LAMBDA n : n = "Normal")
           ELSE id \notin DOMAIN style_mapping
\* ---- C15
\* the run fails in the step taken from the stage `at`
FailsAt(at) == pc = at /\ result' = "False"
OutputDoc == fromstring(fs[output_path].pkg.document)

\* C15: a mapping that leaves target ids out, the empty mapping included, stops
\* nothing: once build_style_mapping has returned, step 3 goes on whatever the
\* map holds, the merge does not fail, the rewrite fails only when elem.set
\* raises on a mapped value, and in the output of a successful run every
\* reference whose id is not a key of the map is as it was in the target.
C15_IncompleteMappingNotFatal ==
  /\ [][FailsAt("map") =>
          build_style_mapping(template_style_id_mapping, target_styles_xml_root).raised]_vars
  /\ [][~FailsAt("usd")]_vars
  /\ [][FailsAt("ucr") => RewriteRaises(OutputDoc, style_mapping)]_vars
  /\ [](result = "True" =>
         /\ Len(OutputDoc) = Len(TargetDoc0)
         /\ \A i \in 1..Len(TargetDoc0) :
              TargetDoc0[i].val \notin DOMAIN style_mapping => OutputDoc[i] = TargetDoc0[i])

\* a successful run with the empty map: the target defines H1X and BTX, the
\* template defines nothing, and the reference to H1X is in the output
C15_Witness ==
  /\ result = "True"
  /\ ~SecondRun
  /\ style_mapping = EmptyMap
  /\ TargetRoot0 = ExampleTarget
  /\ \E i \in 1..Len(TargetDoc0) : TargetDoc0[i].val = "H1X" /\ OutputDoc[i].val = "H1X"
\* ======================================================= claims of the query
Returned == pc = "returned"
ScannedBody == fromstring(fs[target_path].pkg.document)
ScannedStyles == fromstring(fs[target_path].pkg.styles)
\* nothing raised: the package opens, the content part parses, and so does
\* the style part when a matched element has a style reference
QueryRan ==
  /\ Returned
  /\ Readable(target_path)
  /\ Parses(fs[target_path].pkg.document)
  /\ ReadsStyles(ScannedBody, search_string) => Parses(fs[target_path].pkg.styles)

\* the needle is in the text: text = before \o needle \o after
Occurs(needle, text) ==
  \E a \in 0..Len(text), b \in 0..Len(text) :
    /\ a + Len(needle) = b
    /\ \A k \in 1..Len(needle) : text[a + k] = needle[k]
\* the texts of the w:t elements of a paragraph, one after the other
RECURSIVE Joined(_, _)
Joined(texts, n) == IF n = 0 THEN <<>> ELSE Joined(texts, n - 1) \o texts[n]
ParagraphText(para) == Joined(para.texts, Len(para.texts))
RECURSIVE TableText(_, _)
TableText(tbl, n) ==
  IF n = 0 THEN <<>> ELSE TableText(tbl, n - 1) \o ParagraphText(tbl.paras[n])
TextOf(elem) == IF elem.kind = "p" THEN ParagraphText(elem) ELSE TableText(elem, Len(elem.paras))
\* the results of one kind
OfType(type) == SelectSeq(results, LAMBDA r : r.type = type)
\* the element a result was built from
ElementOf(r) ==
  IF r.type = "table" THEN BodyTables(ScannedBody)[r.index + 1]
  ELSE BodyParagraphs(ScannedBody)[r.index + 1]
\* the first style element of the scanned style part with the id
Defines(styles_root, id) ==
  \E i \in 1..Len(StyleElems(styles_root)) : StyleElems(styles_root)[i].id = id /\ id # None
FirstDefinition(styles_root, id) ==
  StyleElems(styles_root)[CHOOSE i \in 1..Len(StyleElems(styles_root)) :
     /\ StyleElems(styles_root)[i].id = id
     /\ \A j \in 1..(i - 1) : StyleElems(styles_root)[j].id # id]

\* ---- C16
\* the body has, at position i, a paragraph outside lists with the example
\* text and a reference to BTX, and no other block holds the needle
ExampleParagraphAt(i) ==
  /\ ScannedBody[i] = Para("BTX", FALSE, ScannedBody[i].texts)
  /\ ParagraphText(ScannedBody[i]) = WholeText
  /\ \A j \in 1..Len(ScannedBody) : j # i => ~Occurs(search_string, TextOf(ScannedBody[j]))

\* C16: when the scanned package has one paragraph with the text zheng-wen-
\* nei-rong whose w:pStyle is BTX, BTX is named BodyText in that package's
\* style part, and the needle is zheng-wen, the result is one occurrence, of
\* kind paragraph, with style name BodyText; and in every result the name of a
\* style the scanned package defines is the name that package gives it
\* (the id itself when the style has no w:name), whatever the template says.
C16_NameFromScannedPackage ==
  QueryRan =>
    /\ \A i \in 1..Len(ScannedBody) :
         (/\ ExampleParagraphAt(i)
          /\ search_string = <<"zheng", "wen">>
          /\ Defines(ScannedStyles, "BTX")
          /\ FirstDefinition(ScannedStyles, "BTX").name = "BodyText")
           => /\ Len(results) = 1
              /\ results[1].type = "paragraph"
              /\ results[1].text = WholeText
              /\ results[1].style.style_name = <<"", "BodyText">>
    /\ \A k \in 1..Len(results) :
         LET ref == ElementOf(results[k]).style
         IN Defines(ScannedStyles, ref) =>
              /\ results[k].style.style_id = ref
              /\ results[k].style.style_name =
                   <<"", IF FirstDefinition(ScannedStyles, ref).name = NoElem THEN ref
                         ELSE FirstDefinition(ScannedStyles, ref).name>>

\* the example next to a paragraph without the needle, the text in two w:t
\* elements, the template naming BTX otherwise
C16_Witness ==
  /\ QueryRan
  /\ Len(ScannedBody) = 2
  /\ ExampleParagraphAt(1)
  /\ search_string = <<"zheng", "wen">>
  /\ Defines(ScannedStyles, "BTX")
  /\ FirstDefinition(ScannedStyles, "BTX").name = "BodyText"
  /\ FirstDefinition(fromstring(fs[template_path].pkg.styles), "BTX").name = "TemplateBody"
  /\ Len(results) = 1
  /\ results[1].style.style_name = <<"", "BodyText">>

\* ---- C17
\* C17 as stated: a paragraph with a w:numPr whose text holds the needle is in
\* the result once, as kind list, and not as kind paragraph (stated for the
\* needles that are not empty).
C17_ListItemReportedOnce ==
  (QueryRan /\ search_string # <<>>) =>
    \A i \in 1..Len(BodyParagraphs(ScannedBody)) :
      (/\ BodyParagraphs(ScannedBody)[i].numPr
       /\ Occurs(search_string, ParagraphText(BodyParagraphs(ScannedBody)[i])))
        => /\ Len(SelectSeq(OfType("list"), LAMBDA r : r.index = i - 1)) = 1
           /\ Len(SelectSeq(OfType("paragraph"), LAMBDA r : r.index = i - 1)) = 0

\* ---- C18
\* C18: when nothing raised, the paragraphs reported (as kind paragraph) are
\* those whose w:t texts, joined in document order, hold the needle, each
\* once and with that joined text; and the text of every occurrence of any
\* kind holds the needle.
C18_ParagraphsSoundAndComplete ==
  QueryRan =>
    /\ \A i \in 1..Len(BodyParagraphs(ScannedBody)) :
         Len(SelectSeq(OfType("paragraph"), LAMBDA r : r.index = i - 1)) =
           IF Occurs(search_string, ParagraphText(BodyParagraphs(ScannedBody)[i])) THEN 1 ELSE 0
    /\ \A k \in 1..Len(results) :
         /\ Occurs(search_string, results[k].text)
         /\ results[k].text = TextOf(ElementOf(results[k]))

\* the needle zheng-wen found across two w:t elements, zheng and wen
C18_Witness ==
  /\ QueryRan
  /\ search_string = <<"zheng", "wen">>
  /\ ScannedBody[1].kind = "p"
  /\ ScannedBody[1].texts = <<<<"zheng">>, <<"wen">>>>
  /\ Len(OfType("paragraph")) = 1
  /\ results[1].text = <<"zheng", "wen">>

\* ---- C19
UnnamedOf(type) ==
  CASE type = "paragraph" -> "unnamed_style_"
    [] type = "table" -> "unnamed_table_style_"
    [] type = "list" -> "unnamed_list_style_"
DefaultIdOf(type) ==
  CASE type = "paragraph" -> "default"
    [] type = "table" -> "default_table"
    [] type = "list" -> "default_list"
DefaultNameOf(type) ==
  CASE type = "paragraph" -> "default_style"
    [] type = "table" -> "default_table_style"
    [] type = "list" -> "default_list_style"
\* the elements of the scanned body a loop of the kind reports
Reported(type) ==
  LET elems == IF type = "table" THEN BodyTables(ScannedBody) ELSE BodyParagraphs(ScannedBody)
  IN {i \in 1..Len(elems) : /\ Occurs(search_string, TextOf(elems[i]))
                            /\ type = "list" => elems[i].numPr}

\* C19: a matched element whose style reference names an id the scanned style
\* part does not define is reported all the same, with a style whose id is
\* the referenced id and whose name is the kind's fixed prefix followed by the
\* id; a matched element without style reference is reported with the kind's
\* fixed default style (id and name).
C19_PlaceholderStyles ==
  QueryRan =>
    /\ \A type \in {"paragraph", "table", "list"} :
         \A i \in Reported(type) : \E k \in 1..Len(results) :
           results[k].type = type /\ results[k].index = i - 1
    /\ \A k \in 1..Len(results) :
         LET ref == ElementOf(results[k]).style
             style == results[k].style
         IN /\ (ref # NoElem /\ ~Defines(ScannedStyles, ref)) =>
                 /\ style.style_id = ref
                 /\ style.style_name = <<UnnamedOf(results[k].type), ref>>
            /\ ref = NoElem =>
                 /\ style.style_id = DefaultIdOf(results[k].type)
                 /\ style.style_name = <<"", DefaultNameOf(results[k].type)>>

\* a paragraph that refers to the undefined id Unknown, next to a list item
\* without style reference
C19_Witness ==
  /\ QueryRan
  /\ \E k \in 1..Len(results) :
       /\ results[k].type = "paragraph"
       /\ ElementOf(results[k]).style = "Unknown"
       /\ results[k].style.style_name = <<"unnamed_style_", "Unknown">>
  /\ \E k \in 1..Len(results) :
       /\ results[k].type = "list"
       /\ ElementOf(results[k]).style = NoElem
       /\ results[k].style.style_id = "default_list"

\* ---- C20
\* C20 as stated: the first-line indent of every resolved style is the default
\* 0 or the w:firstLine the style's w:ind declares, never None (stated for the
\* needles that are not empty).
C20_FirstLineIndentNeverNone ==
  (QueryRan /\ search_string # <<>>) =>
    \A k \in 1..Len(results) :
      /\ results[k].style.first_line_indent # None
      /\ LET ref == ElementOf(results[k]).style
         IN results[k].style.first_line_indent =
              IF /\ Defines(ScannedStyles, ref)
                 /\ FirstDefinition(ScannedStyles, ref).ind.present
                 /\ FirstDefinition(ScannedStyles, ref).ind.firstLine # None
              THEN FirstDefinition(ScannedStyles, ref).ind.firstLine
              ELSE "0"
\* ============================================== claims of the pipeline, again
\* ---- C21
\* what the two catalogs alone say the target style (id, name) maps to:
\* <<TRUE, template id>> or <<FALSE, None>>
Resolution(tpl, name) ==
  IF HasNamed(tpl, name) THEN <<TRUE, FirstIdOf(tpl, LAMBDA n : n = name)>>
  ELSE IF StartsWithHeading(name) /\ HasHeading(tpl)
  THEN <<TRUE, FirstIdOf(tpl, StartsWithHeading)>>
  ELSE IF HasNamed(tpl, "Normal") /\ Truthy(FirstIdOf(tpl, LAMBDA n : n = "Normal"))
  THEN <<TRUE, FirstIdOf(tpl, LAMBDA n : n = "Normal")>>
  ELSE <<FALSE, None>>
ResolvedIds(tgt, tpl) ==
  {tgt[i][1] : i \in {k \in 1..Len(tgt) : Resolution(tpl, tgt[k][2])[1]}}
NameOfId(tgt, id) == tgt[CHOOSE i \in 1..Len(tgt) : tgt[i][1] = id][2]

\* C21: the map build_style_mapping returns is a function of the two catalogs
\* in their insertion order and of nothing else: whatever run and whatever
\* state it is called in, it is the map that gives every target id the first
\* template style (in catalog order) of the first pass that resolves its name.
C21_MappingDependsOnCatalogsOnly ==
  pc = "usd" =>
    /\ DOMAIN style_mapping = ResolvedIds(TargetCatalog, template_style_id_mapping)
    /\ \A id \in DOMAIN style_mapping :
         style_mapping[id] =
           Resolution(template_style_id_mapping, NameOfId(TargetCatalog, id))[2]

\* two template styles named Normal, with different ids; the target's Normal
\* and its unmatched BodyText both go to the first
C21_Witness ==
  /\ pc = "usd"
  /\ template_style_id_mapping = <<<<"NormalT", "Normal">>, <<"", "Normal">>>>
  /\ style_mapping = [k \in {"NormalT", "BTX"} |-> "NormalT"]
\* ---- C27
\* the map sends a to b and b on to something else
Chained(m, a) == a \in DOMAIN m /\ m[a] \in DOMAIN m /\ m[m[a]] # m[a]

\* C27: a reference is rewritten once: in the output of a successful run a
\* reference whose id a the map sends to b is b, also when the map sends b on
\* to c (it is then not c), and a reference that was b is c.
C27_RewrittenOnce ==
  result = "True" =>
    \A i \in 1..Len(TargetDoc0) :
      LET a == TargetDoc0[i].val
      IN Chained(style_mapping, a) =>
           /\ OutputDoc[i].val = style_mapping[a]
           /\ OutputDoc[i].val # style_mapping[style_mapping[a]]
           /\ \A j \in 1..Len(TargetDoc0) :
                TargetDoc0[j].val = style_mapping[a]
                  => OutputDoc[j].val = style_mapping[style_mapping[a]]

\* the map H1X -> H1T -> NormalT, a reference to H1X and a reference to H1T
C27_Witness ==
  /\ result = "True"
  /\ style_mapping = [k \in {"H1X", "H1T"} |-> IF k = "H1X" THEN "H1T" ELSE "NormalT"]
  /\ \E i, j \in 1..Len(TargetDoc0) :
       /\ TargetDoc0[i].val = "H1X" /\ OutputDoc[i].val = "H1T"
       /\ TargetDoc0[j].val = "H1T" /\ OutputDoc[j].val = "NormalT"

\* ---- C28
NamedIds(catalog) == {catalog[i][1] : i \in 1..Len(catalog)}
OutputStyleIds == StyleIdsOf(fromstring(fs[output_path].pkg.styles))

\* C28: the keys of the map are ids of target styles that have a w:name, its
\* values ids of template styles that have a w:name; and in the output of a
\* successful run every reference whose id in the target was a key names a
\* style the output style part defines.
C28_MappedReferencesDefined ==
  /\ pc = "usd" =>
       /\ DOMAIN style_mapping \subseteq NamedIds(TargetCatalog)
       /\ \A k \in DOMAIN style_mapping :
            style_mapping[k] \in NamedIds(template_style_id_mapping)
  /\ result = "True" =>
       \A i \in 1..Len(TargetDoc0) :
         TargetDoc0[i].val \in DOMAIN style_mapping => OutputDoc[i].val \in OutputStyleIds

\* a reference to H1X, which the target defines and the template does not,
\* is H1T in the output, which the output style part defines
C28_Witness ==
  /\ result = "True"
  /\ \E i \in 1..Len(TargetDoc0) :
       /\ TargetDoc0[i].val = "H1X"
       /\ "H1X" \in DOMAIN style_mapping
       /\ OutputDoc[i].val = "H1T"
       /\ "H1T" \in OutputStyleIds
       /\ "H1T" \notin StyleIdsOf(TargetRoot0)
\* ---- C24
DocDefaultsOf(root) == Descendants(root, "docDefaults")

\* C24: after the definition merge the output style part holds a w:docDefaults
\* exactly when the template has one, and then exactly one, the template's;
\* the w:docDefaults of the target is gone.  (The claim as stated; steps 5-7
\* look for the target's w:docDefaults only inside a w:styles element below
\* the root, so a w:docDefaults that is a child of the root stays.)
C24_DefaultsReplaced ==
  AfterMerge =>
    DocDefaultsOf(fromstring(MergedPart)) =
      (IF DocDefaultsOf(TemplateRoot0) = <<>> THEN <<>>
       ELSE <<DocDefaultsOf(TemplateRoot0)[1]>>)

\* ---- C23
\* C23: once both style parts have parsed, a style element that lacks an
\* attribute does not make the run fail: the mapping step never ends the run
\* with False.  (The claim as stated; a w:name without w:val gives the name
\* None, and pass 2 calls startswith on it.  The other half of the claim, a
\* failure for a style part without the expected root or nesting, has no line
\* of the code behind it: no step reads the tag of the root, and a tree without
\* any w:style gives an empty catalog and a run that goes on.)
C23_MissingAttributesNotFatal ==
  [][pc = "map" => result' # "False"]_vars

\* ============================================ claims of the query, again
\* ---- C25
\* the tables and the paragraphs of the first n blocks of a body
TablesIn(body, n) == Len(SelectSeq(SubSeq(body, 1, n), LAMBDA b : b.kind = "tbl"))
RECURSIVE ParagraphsIn(_, _)
ParagraphsIn(body, n) ==
  IF n = 0 THEN 0
  ELSE ParagraphsIn(body, n - 1) + (IF body[n].kind = "p" THEN 1 ELSE Len(body[n].paras))
\* the places, among all paragraphs of the body, of the paragraphs of block n
InnerParagraphs(body, n) == (ParagraphsIn(body, n - 1) + 1)..ParagraphsIn(body, n)

\* C25 as stated: a table whose text holds the needle is in the result once,
\* as kind table, and none of the paragraphs of its cells is in the result
\* (stated for the needles that are not empty).
C25_TableReportedOnce ==
  (QueryRan /\ search_string # <<>>) =>
    \A n \in 1..Len(ScannedBody) :
      (/\ ScannedBody[n].kind = "tbl"
       /\ Occurs(search_string, TextOf(ScannedBody[n])))
        => /\ Len(SelectSeq(OfType("table"),
                            LAMBDA r : r.index = TablesIn(ScannedBody, n) - 1)) = 1
           /\ \A k \in 1..Len(results) :
                results[k].type \in {"paragraph", "list"}
                  => results[k].index + 1 \notin InnerParagraphs(ScannedBody, n)

\* ---- C26
\* the places (counted from 0) of the elements whose text holds the needle
MatchOrdinals(elems) ==
  SelectSeq([i \in 1..Len(elems) |-> i - 1],
            LAMBDA o : Occurs(search_string, TextOf(elems[o + 1])))
\* the same places for the list items only, counted among all the elements
ListMatchOrdinals(elems) ==
  SelectSeq(MatchOrdinals(elems), LAMBDA o : elems[o + 1].numPr)
ListItems(body) == SelectSeq(BodyParagraphs(body), LAMBDA para : para.numPr)
IndicesOf(type) == [k \in 1..Len(OfType(type)) |-> OfType(type)[k].index]

\* C26 as stated: the index of an occurrence is the place of its element among
\* the elements of its kind: of a paragraph among the paragraphs, of a table
\* among the tables, of a list item among the list items.
C26_IndexAmongOwnKind ==
  QueryRan =>
    /\ IndicesOf("paragraph") = MatchOrdinals(BodyParagraphs(ScannedBody))
    /\ IndicesOf("table") = MatchOrdinals(BodyTables(ScannedBody))
    /\ IndicesOf("list") = MatchOrdinals(ListItems(ScannedBody))

\* C26, amended: the index of a paragraph occurrence and of a list occurrence
\* is the place of the paragraph among all the paragraphs of the body, those
\* of table cells included; the index of a table occurrence is its place
\* among the tables.  Places are counted from 0.
C26_IndexAmongParagraphsOrTables ==
  QueryRan =>
    /\ IndicesOf("paragraph") = MatchOrdinals(BodyParagraphs(ScannedBody))
    /\ IndicesOf("table") = MatchOrdinals(BodyTables(ScannedBody))
    /\ IndicesOf("list") = ListMatchOrdinals(BodyParagraphs(ScannedBody))

\* a list item after a paragraph that is none: the first list item, index 1
C26_Witness ==
  /\ QueryRan
  /\ Len(ScannedBody) = 2
  /\ ScannedBody[1].kind = "p" /\ ~ScannedBody[1].numPr
  /\ ScannedBody[2].kind = "p" /\ ScannedBody[2].numPr
  /\ search_string = <<"zheng", "wen">>
  /\ IndicesOf("list") = <<1>>

\* ---- C22
\* the style elements the extractors make a Style object of
NamedStyleElems(styles_root) == SelectSeq(StyleElems(styles_root), LAMBDA e : e.name # NoElem)
RecognizedTypes == {"paragraph", "character", "table"}
TypeAttributeKind(style_elem) ==
  IF style_elem.type \in RecognizedTypes THEN style_elem.type ELSE "paragraph"
\* an extractor has returned, and the style part it read
Extracted == pc \in {"template_styles", "target_styles"}
ExtractedRoot ==
  fromstring(fs[IF pc = "template_styles" THEN template_path ELSE target_path].pkg.styles)
ExtractorRan ==
  /\ Extracted
  /\ pc = "template_styles" => Readable(template_path) /\ Parses(fs[template_path].pkg.styles)
  /\ pc = "target_styles" =>
       /\ Readable(target_path)
       /\ Parses(fs[target_path].pkg.styles)
       /\ Parses(fs[target_path].pkg.document)

\* C22 as stated: the kind of every extracted style is its w:type attribute
\* when that is paragraph, character or table, and paragraph otherwise.
C22_KindFromTypeAttribute ==
  ExtractorRan =>
    /\ Len(results) = Len(NamedStyleElems(ExtractedRoot))
    /\ \A k \in 1..Len(results) :
         results[k].style_type = TypeAttributeKind(NamedStyleElems(ExtractedRoot)[k])

\* C22, amended: the kind of an extracted style whose w:pPr holds a w:numPr is
\* list, whatever its w:type; the kind of every other extracted style is its
\* w:type attribute when that is paragraph, character or table, and paragraph
\* otherwise.  One style is extracted for every style element with a w:name.
C22_KindFromTypeUnlessNumbered ==
  ExtractorRan =>
    /\ Len(results) = Len(NamedStyleElems(ExtractedRoot))
    /\ \A k \in 1..Len(results) :
         LET style_elem == NamedStyleElems(ExtractedRoot)[k]
         IN results[k].style_type =
              IF style_elem.numPr THEN "list" ELSE TypeAttributeKind(style_elem)

\* a character style with a w:numPr next to a table style, read from the
\* template
C22_Witness ==
  /\ pc = "template_styles"
  /\ Len(results) = 2
  /\ NamedStyleElems(ExtractedRoot)[1].type = "character"
  /\ NamedStyleElems(ExtractedRoot)[1].numPr
  /\ results[1].style_type = "list"
  /\ NamedStyleElems(ExtractedRoot)[2].type = "table"
  /\ results[2].style_type = "table"

\* ---- C29
TargetBody0 == fromstring(fs0[target_path].pkg.document)
OutputBody == fromstring(fs[output_path].pkg.document)
\* a body without the ids of its style references: what is left says where
\* there is a reference, and everything else of the paragraphs and tables
ParaShape(para) == [para EXCEPT !.style = (@ # NoElem)]
Shape(body) ==
  [i \in 1..Len(body) |->
     [body[i] EXCEPT !.style = (@ # NoElem),
                     !.paras = [j \in 1..Len(@) |-> ParaShape(@[j])]]]
\* kind, index and text of the occurrences of a result
Located(rs) ==
  [k \in 1..Len(rs) |-> [type |-> rs[k].type, index |-> rs[k].index, text |-> rs[k].text]]
\* the occurrences of a body, from its texts: the matching paragraphs, then
\* the matching tables, then the matching list items
OccurrencesIn(body) ==
  LET paragraphs == BodyParagraphs(body)
      tables == BodyTables(body)
      Found(type, elems, ords) ==
        [k \in 1..Len(ords) |->
           [type |-> type, index |-> ords[k], text |-> TextOf(elems[ords[k] + 1])]]
  IN Found("paragraph", paragraphs, MatchOrdinals(paragraphs))
     \o Found("table", tables, MatchOrdinals(tables))
     \o Found("list", paragraphs, ListMatchOrdinals(paragraphs))

\* C29: the content part a successful run leaves at the output path is the
\* target's content part up to the ids of its style references: the same
\* paragraphs and tables in the same order with the same texts and numbering
\* properties, a style reference exactly where there was one; and
\* get_styles_by_string on the output returns occurrences of the same kind,
\* index and text as on the target.
C29_OnlyReferenceIdsChange ==
  /\ result = "True" => Shape(OutputBody) = Shape(TargetBody0)
  /\ pc = "output_queried" =>
       /\ Located(results) = OccurrencesIn(TargetBody0)
       /\ Located(results) =
            Located(get_styles_by_string(fs0[target_path], fs0[target_path].pkg.styles,
                                         search_string))

\* a list item in a table cell and a heading, both rewritten, both found
C29_Witness ==
  /\ pc = "output_queried"
  /\ search_string = <<"zheng", "wen">>
  /\ TargetBody0 = <<Table("TblX", <<Para("BTX", TRUE, <<WholeText>>)>>),
                     Para("H1X", FALSE, <<WholeText>>)>>
  /\ OutputBody = <<Table("NormalT", <<Para("NormalT", TRUE, <<WholeText>>)>>),
                    Para("H1T", FALSE, <<WholeText>>)>>
  /\ Len(results) = 4

\* ====================================================== claim of the shell
\* ---- C30
\* C30: at most one OCR recognition thread is in flight at any time: from
\* start_ocr_recognition until its finished or error callback no second
\* recognition is started.  (The claim as stated; the code disables the two
\* buttons but not a screenshot window that is already open, and
\* start_ocr_recognition starts a thread whatever is running.)
C30_AtMostOneRecognition == ocr_threads <= 1

====
